---- MODULE Spec2Model ----
(***************************************************************************)
(* A model of src/copy_opt.py: the shallow copier copy(x) and the deep     *)
(* copier deepcopy(x, memo) with its identity-keyed memo table, its        *)
(* keep-alive list and its one-entry "last identity" cache, which the      *)
(* code keeps in two attributes of the function object (deepcopy._last_id, *)
(* deepcopy._last_obj) and which therefore is shared by every call in the  *)
(* process.                                                                *)
(*                                                                         *)
(* Objects live in a heap keyed by identity (id(x) in the code).  The      *)
(* recursion of deepcopy is an explicit call stack per thread, one frame   *)
(* per active Python call, so that the interleavings of two callers can be *)
(* explored.  A step of the model is a run of statements of one thread     *)
(* that touches the shared cache at most once.                             *)
(***************************************************************************)
EXTENDS Integers, Sequences, FiniteSets, TLC

\* ------------------------------------------------------------------ bounds
MaxKids == 2     \* children per source object
MaxRefs == 3     \* references (children, keys, arguments, state) in a source graph
MaxAliasRefs == 4 \* references in a source graph that holds one frozenset at two positions
MaxObjParts == 1 \* parts of an instance (arguments, state, items) that hold references
MaxObjRefs == 2  \* references in a source graph that holds instances
MaxConcRefs == 2 \* references in a source graph that two callers copy at once
MaxCalls == 2    \* successive top-level calls per thread
MaxDepth == 16   \* frames a thread's stack may hold before RecursionError

None == 0
Threads == {1, 2}
\* The source objects: 1 is an atomic value, 4 is the root of the source graph.
SrcIds == 1 .. 4

Root == 4

VARIABLES
    heap,       \* identity -> object
    last_id,    \* deepcopy._last_id
    last_obj,   \* deepcopy._last_obj
    stack,      \* per thread: the active calls, innermost last
    memo,       \* per thread: the memo table of the running top-level call
    keep,       \* per thread: memo[id(memo)], the keep-alive list
    hist,       \* per thread: the finished top-level calls
    made,       \* per thread: identities allocated by the running top-level call
    invs,       \* per thread: the arguments of the strategies the running top-level call invoked
    nalloc,     \* per thread: objects allocated so far
    todo        \* per thread: the top-level calls its caller still makes

vars == <<heap, last_id, last_obj, stack, memo, keep, hist, made, invs, nalloc, todo>>

\* ------------------------------------------------------------------ objects
\* kind: "atom" (int, str, None, ...), "list", "tuple", "dict", "fset" (frozenset),
\* "set", "obj" (an instance copied through __reduce_ex__), "bad" (a value with no
\* strategy at all).  kids: the elements (list, tuple, set, fset; the items a list
\* subclass yields as listiter) or the values (dict).  keys: of a dict, one per
\* value; key 0 is a string literal, an atomic the heap does not track.
\* args: of an obj, the arguments of its factory.  state: of an obj, the identity of
\* its __dict__, or None.
\* A shallow-copy table that takes a list for an immutable value.
IsCopyImmutableOrList(kind) == kind \in {"atom", "tuple", "fset", "list"}

\* The kinds _copy_dispatch maps to _copy_immutable.
IsCopyImmutable(kind) == kind \in {"atom", "tuple", "fset"}

\* What the two copiers ask of type(x), for the built-in kinds.  dtable: the entry of
\* _deepcopy_dispatch for the exact type ("" when it has none); ctable: the entry of
\* _copy_dispatch; istype: issubclass(cls, type), the value is itself a class;
\* dhook, chook: the value __deepcopy__ / __copy__ returns when the type declares
\* one, None when it declares none; proto: the type answers __reduce_ex__; fails:
\* the piece of the type's own code that raises KeyError when the copier calls it,
\* "override" (__deepcopy__), "factory" (the callable of the reduced value) or
\* "setstate" (__setstate__), "" when none does.
TypeOf(kind) ==
    [dtable |-> IF kind \in {"atom", "list", "tuple", "dict"} THEN kind ELSE "",
     ctable |-> IF IsCopyImmutable(kind) THEN "immutable"
                ELSE IF kind \in {"list", "dict", "set"} THEN "copy" ELSE "",
     istype |-> FALSE,
     dhook |-> None,
     chook |-> None,
     proto |-> kind \in {"fset", "set", "obj"},
     fails |-> ""]

Obj(kind, kids, keys, args, state) ==
    [kind |-> kind, kids |-> kids, keys |-> keys, args |-> args, state |-> state,
     ty |-> TypeOf(kind)]

Atom == Obj("atom", <<>>, <<>>, <<>>, None)

EmptyFn == [z \in {} |-> None]

Upd(f, a, b) == [z \in DOMAIN f \cup {a} |-> IF z = a THEN b ELSE f[z]]

Range(s) == {s[n] : n \in DOMAIN s}

\* The objects an object refers to.  Identity 0 stands for None and for the string
\* literals used as keys: atomic values the heap does not track.
Refs(h, a) ==
    (Range(h[a].kids) \cup Range(h[a].keys) \cup Range(h[a].args) \cup {h[a].state}) \ {0}

NRefs(h, a) ==
    Len(h[a].kids) + Cardinality({n \in DOMAIN h[a].keys : h[a].keys[n] # 0})
        + Len(h[a].args) + (IF h[a].state = None THEN 0 ELSE 1)

RECURSIVE ReachFrom(_, _, _)
ReachFrom(h, seen, front) ==
    IF front = {} THEN seen
    ELSE LET nxt == UNION {Refs(h, a) : a \in front} \ (seen \cup front)
         IN ReachFrom(h, seen \cup front, nxt)

\* Everything reachable from a, a included.
Reach(h, a) == ReachFrom(h, {}, {a})

\* a lies on a cycle.
OnCycle(h, a) == \E b \in Refs(h, a) : a \in Reach(h, b)


\* ------------------------------------------------------------ source graphs
\* Sequences over S of length at most n.
SeqsUpTo(S, n) == UNION {[1 .. m -> S] : m \in 0 .. n}

Injective(s) == \A m, n \in DOMAIN s : m # n => s[m] # s[n]

\* The shapes an object of a source graph can have, by kind.
ShapesOf(kind) ==
    CASE kind = "list" -> {Obj("list", s, <<>>, <<>>, None) : s \in SeqsUpTo(SrcIds, MaxKids)}
      [] kind = "tuple" -> {Obj("tuple", s, <<>>, <<>>, None) : s \in SeqsUpTo(SrcIds, MaxKids)}
      [] kind = "fset" ->
            {Obj("fset", s, <<>>, <<>>, None) :
                s \in {q \in SeqsUpTo(SrcIds, MaxKids) : Len(q) > 0 /\ Injective(q)}}
      [] kind = "set" ->
            {Obj("set", s, <<>>, <<>>, None) :
                s \in {q \in SeqsUpTo(SrcIds, MaxKids) : Len(q) > 0 /\ Injective(q)}}
      [] kind = "dict" ->
            UNION {{Obj("dict", v, k, <<>>, None) :
                        k \in {q \in [1 .. m -> {0} \cup SrcIds] :
                                  \A a, b \in 1 .. m : (a # b /\ q[a] # 0) => q[a] # q[b]},
                        v \in [1 .. m -> SrcIds]} : m \in 0 .. MaxKids}
      [] kind = "obj" ->
            {q \in {Obj("obj", l, k, a, st) :
                        l \in SeqsUpTo(SrcIds, 1), k \in SeqsUpTo(SrcIds, 1),
                        a \in SeqsUpTo(SrcIds, 1), st \in {None} \cup (SrcIds \ {1})} :
                /\ Len(q.keys) <= Len(q.kids)
                /\ Cardinality({part \in {"kids", "args", "state"} :
                        CASE part = "kids" -> q.kids # <<>>
                          [] part = "args" -> q.args # <<>>
                          [] OTHER -> q.state # None}) <= MaxObjParts}
      [] kind = "bad" -> {Obj("bad", <<>>, <<>>, <<>>, None)}
      [] kind = "atom" -> {Atom}

ShapeRefs(s) ==
    Len(s.kids) + Cardinality({n \in DOMAIN s.keys : s.keys[n] # 0})
        + Len(s.args) + (IF s.state = None THEN 0 ELSE 1)

\* What Python can hash: a dict key or a set element is never a list, a dict or a
\* set, nor a tuple holding one.
RECURSIVE Hashable(_, _, _)
Hashable(h, a, fuel) ==
    CASE h[a].kind \in {"list", "dict", "set"} -> FALSE
      [] h[a].kind = "tuple" ->
            fuel > 0 /\ \A n \in DOMAIN h[a].kids : Hashable(h, h[a].kids[n], fuel - 1)
      [] OTHER -> TRUE

\* Reachable through tuples and frozensets alone.
RECURSIVE FrozenReach(_, _, _)
FrozenReach(h, seen, front) ==
    IF front = {} THEN seen
    ELSE LET nxt == UNION {Refs(h, a) : a \in {b \in front : h[b].kind \in {"tuple", "fset"}}}
                        \ (seen \cup front)
         IN FrozenReach(h, seen \cup front, nxt)

\* A graph a Python program can build: keys and set elements are hashable, a cycle
\* runs through an object that can be mutated after its construction, and the state
\* of an instance is a dict of its own with attribute names (strings) as keys.
WellFormed(h) ==
    LET n == Cardinality(DOMAIN h) IN
    \A a \in DOMAIN h :
        /\ h[a].kind \in {"fset", "set"} => \A m \in DOMAIN h[a].kids : Hashable(h, h[a].kids[m], n)
        /\ h[a].kind \in {"dict", "obj"} =>
              \A m \in DOMAIN h[a].keys : h[a].keys[m] # 0 => Hashable(h, h[a].keys[m], n)
        /\ h[a].kind \in {"tuple", "fset"} =>
              \A b \in Refs(h, a) : a \notin FrozenReach(h, {}, {b})
        /\ h[a].state # None =>
              /\ h[h[a].state].kind = "dict"
              /\ Len(h[h[a].state].kids) > 0
              /\ \A m \in DOMAIN h[h[a].state].keys : h[h[a].state].keys[m] = 0
              /\ \A b \in DOMAIN h : (b # a /\ h[b].kind = "obj") => h[b].state # h[a].state

\* Every object that is not an atomic value is reachable from the root.
Rooted(h) == {a \in DOMAIN h : h[a].kind # "atom"} \subseteq Reach(h, Root)

BuiltinKinds == {"list", "tuple", "dict", "fset"}

AllKinds == BuiltinKinds \cup {"set", "obj", "bad", "atom"}

\* The shapes with at most r references, by r.
BuiltinShapes[r \in 0 .. MaxAliasRefs] ==
    {q \in UNION {ShapesOf(kd) : kd \in BuiltinKinds} : ShapeRefs(q) <= r}

AllShapes[r \in 0 .. MaxRefs] ==
    {q \in UNION {ShapesOf(kd) : kd \in AllKinds} : ShapeRefs(q) <= r}

\* The graph of the objects 1 (an atomic value), 2, 3 and 4 (the root).
Graph(s2, s3, s4) ==
    [z \in SrcIds |-> CASE z = 1 -> Atom [] z = 2 -> s2 [] z = 3 -> s3 [] OTHER -> s4]

\* h is a well-formed source graph with shapes of S and at most b references.
IsSrcGraph(S, b, h) ==
    \E s4 \in S[b] :
        \E s3 \in S[b - ShapeRefs(s4)] :
            \E s2 \in S[b - ShapeRefs(s4) - ShapeRefs(s3)] :
                /\ WellFormed(Graph(s2, s3, s4))
                /\ Rooted(Graph(s2, s3, s4))
                /\ h = Graph(s2, s3, s4)

\* ------------------------------------------------------------------ frames
\* fn: "dc" (deepcopy), "list" (_deepcopy_list), "tuple" (_deepcopy_tuple), "dict"
\* (_deepcopy_dict), "recon" (_reconstruct).  x: the argument.  pc: where the call
\* stands.  ph: the part of a strategy that is running.  i: the loop index.
\* y: the copy.  r: the value the last inner call returned.  k: key_copy.
\* acc: the copies collected so far.  rargs: args, as the reductor gave them.
\* top: the call was made with the memo omitted.
Frame(fn, x, pc) ==
    [fn |-> fn, x |-> x, pc |-> pc, ph |-> "", i |-> 1, y |-> None, r |-> None,
     k |-> None, acc |-> <<>>, rargs |-> <<>>, top |-> FALSE]

Top(t) == stack[t][Len(stack[t])]

At(t, fn, pc) == Len(stack[t]) > 0 /\ Top(t).fn = fn /\ Top(t).pc = pc

SetTop(t, f) == [stack EXCEPT ![t] = [@ EXCEPT ![Len(@)] = f]]

Push(t, f) == [stack EXCEPT ![t] = Append(@, f)]

\* The call of deepcopy(a, memo) from the strategy on top of the stack.
PushCall(t, a) == Push(t, Frame("dc", a, "check"))

Pop(st) == SubSeq(st, 1, Len(st) - 1)

\* A strategy returns v to the deepcopy call that dispatched to it.
StrategyReturn(t, v) ==
    [stack EXCEPT ![t] =
        [Pop(@) EXCEPT ![Len(@) - 1] = [@ EXCEPT !.y = v, !.pc = "memoize"]]]

\* The identity of the next object thread t allocates.
NewId(t) == 100 * t + nalloc[t] + 1

\* A finished top-level call.  cls: the type the message of an Error names.
Done(op, x, y, status, objs) ==
    [op |-> op, x |-> x, y |-> y, status |-> status, made |-> objs, cls |-> ""]

\* A top-level call that raised err; an Error names the type of the value a.
Failed(op, x, err, a, objs) ==
    [Done(op, x, None, err, objs) EXCEPT !.cls = IF err = "Error" THEN heap[a].kind ELSE ""]

\* deepcopy(x, memo) returns v: to the strategy that called it, or to the caller
\* of the top-level call, whose memo table goes out of scope.
Return(t, v) ==
    IF Len(stack[t]) = 1
    THEN /\ stack' = [stack EXCEPT ![t] = <<>>]
         /\ hist' = [hist EXCEPT ![t] = Append(@, Done("deepcopy", Top(t).x, v, "ok", made[t]))]
         /\ memo' = [memo EXCEPT ![t] = EmptyFn]
         /\ keep' = [keep EXCEPT ![t] = <<>>]
    ELSE /\ stack' = [stack EXCEPT ![t] =
                [Pop(@) EXCEPT ![Len(@) - 1] = [@ EXCEPT !.r = v, !.pc = "got"]]]
         /\ UNCHANGED <<hist, memo, keep>>

\* An engine that reports every exception as its own Error.
RaiseWrapped(t, err) ==
    /\ stack' = [stack EXCEPT ![t] = <<>>]
    /\ hist' = [hist EXCEPT ![t] = Append(@, Failed("deepcopy", stack[t][1].x, "Error", Top(t).x, made[t]))]
    /\ memo' = [memo EXCEPT ![t] = EmptyFn]
    /\ keep' = [keep EXCEPT ![t] = <<>>]

\* An exception leaves every active call of the thread: nothing in the module
\* catches it.
Raise(t, err) ==
    /\ stack' = [stack EXCEPT ![t] = <<>>]
    /\ hist' = [hist EXCEPT ![t] = Append(@, Failed("deepcopy", stack[t][1].x, err, Top(t).x, made[t]))]
    /\ memo' = [memo EXCEPT ![t] = EmptyFn]
    /\ keep' = [keep EXCEPT ![t] = <<>>]

\* ---------------------------------------------------------------- deepcopy
\* The caller of thread t makes its next top-level call, deepcopy(x).
Call(t) ==
    /\ stack[t] = <<>>
    /\ todo[t] # <<>>
    /\ Head(todo[t]).op = "deepcopy"
    /\ stack' = [stack EXCEPT ![t] = <<[Frame("dc", Head(todo[t]).x, "reset_id") EXCEPT !.top = TRUE]>>]
    /\ todo' = [todo EXCEPT ![t] = Tail(@)]
    /\ made' = [made EXCEPT ![t] = {}]
    /\ invs' = [invs EXCEPT ![t] = <<>>]
    /\ UNCHANGED <<heap, last_id, last_obj, memo, keep, hist, nalloc>>

\* A top-level call that leaves the cached identity of the previous call in place.
ResetLastIdSkipped(t) ==
    /\ At(t, "dc", "reset_id")
    /\ stack' = SetTop(t, [Top(t) EXCEPT !.pc = "reset_obj"])
    /\ UNCHANGED <<heap, last_id, last_obj, memo, keep, hist, made, invs, nalloc, todo>>

\* if memo is None: deepcopy._last_id = None
ResetLastId(t) ==
    /\ At(t, "dc", "reset_id")
    /\ last_id' = None
    /\ stack' = SetTop(t, [Top(t) EXCEPT !.pc = "reset_obj"])
    /\ UNCHANGED <<heap, last_obj, memo, keep, hist, made, invs, nalloc, todo>>

\* deepcopy._last_obj = None; memo = {}
ResetLastObj(t) ==
    /\ At(t, "dc", "reset_obj")
    /\ last_obj' = None
    /\ memo' = [memo EXCEPT ![t] = EmptyFn]
    /\ keep' = [keep EXCEPT ![t] = <<>>]
    /\ stack' = SetTop(t, [Top(t) EXCEPT !.pc = "check"])
    /\ UNCHANGED <<heap, last_id, hist, made, invs, nalloc, todo>>

\* An engine that looks a value up in the one-entry cache only, never in the memo.
CheckLastNoMemo(t) ==
    /\ At(t, "dc", "check")
    /\ Len(stack[t]) <= MaxDepth
    /\ stack' = SetTop(t,
          IF last_id = Top(t).x THEN [Top(t) EXCEPT !.pc = "fast"]
          ELSE [Top(t) EXCEPT !.pc = "dispatch"])
    /\ UNCHANGED <<heap, last_id, last_obj, memo, keep, hist, made, invs, nalloc, todo>>

\* d = id(x); if deepcopy._last_id == d: ...  else: y = memo.get(d, _nil)
CheckLast(t) ==
    /\ At(t, "dc", "check")
    /\ Len(stack[t]) <= MaxDepth
    /\ stack' = SetTop(t,
          IF last_id = Top(t).x THEN [Top(t) EXCEPT !.pc = "fast"]
          ELSE IF Top(t).x \in DOMAIN memo[t]
               THEN [Top(t) EXCEPT !.y = memo[t][Top(t).x], !.pc = "hit_id"]
               ELSE [Top(t) EXCEPT !.pc = "dispatch"])
    /\ UNCHANGED <<heap, last_id, last_obj, memo, keep, hist, made, invs, nalloc, todo>>

\* return deepcopy._last_obj
FastReturn(t) ==
    /\ At(t, "dc", "fast")
    /\ Return(t, last_obj)
    /\ UNCHANGED <<heap, last_id, last_obj, made, invs, nalloc, todo>>

\* An engine that stores the returned value in the cache under the identity the
\* cache already held.
SetLastIdSkipped(t) ==
    /\ At(t, "dc", "set_id")
    /\ stack' = SetTop(t, [Top(t) EXCEPT !.pc = "set_obj"])
    /\ UNCHANGED <<heap, last_id, last_obj, memo, keep, hist, made, invs, nalloc, todo>>

\* if y is not _nil: deepcopy._last_id = d
HitSetLastId(t) ==
    /\ At(t, "dc", "hit_id")
    /\ last_id' = Top(t).x
    /\ stack' = SetTop(t, [Top(t) EXCEPT !.pc = "hit_obj"])
    /\ UNCHANGED <<heap, last_obj, memo, keep, hist, made, invs, nalloc, todo>>

\* deepcopy._last_obj = y; return y
HitReturn(t) ==
    /\ At(t, "dc", "hit_obj")
    /\ last_obj' = Top(t).y
    /\ Return(t, Top(t).y)
    /\ UNCHANGED <<heap, last_id, made, invs, nalloc, todo>>

\* A resolution that asks for the override before the table and the class test.
DeepStrategyHookFirst(ty) ==
    IF ty.dhook # None THEN "hook"
    ELSE IF ty.dtable # "" THEN ty.dtable
    ELSE IF ty.istype THEN "atom"
    ELSE IF ty.proto THEN "reduce"
    ELSE "fail"

\* The strategy deepcopy resolves for a value of type ty: _deepcopy_dispatch.get(cls),
\* else issubclass(cls, type), else getattr(x, "__deepcopy__"), else the reductor,
\* else Error.
DeepStrategy(ty) ==
    IF ty.dtable # "" THEN ty.dtable
    ELSE IF ty.istype THEN "atom"
    ELSE IF ty.dhook # None THEN "hook"
    ELSE IF ty.proto THEN "reduce"
    ELSE "fail"

\* copier = _deepcopy_atomic; y = copier(x, memo)
CopyAtomic(t) ==
    /\ At(t, "dc", "dispatch")
    /\ DeepStrategy(heap[Top(t).x].ty) = "atom"
    /\ stack' = SetTop(t, [Top(t) EXCEPT !.y = Top(t).x, !.pc = "memoize"])
    /\ invs' = [invs EXCEPT ![t] = Append(@, Top(t).x)]
    /\ UNCHANGED <<heap, last_id, last_obj, memo, keep, hist, made, nalloc, todo>>

\* An engine that never registers what a strategy returned.
MemoizeNever(t) ==
    /\ At(t, "dc", "memoize")
    /\ stack' = SetTop(t, [Top(t) EXCEPT !.pc = "set_id"])
    /\ UNCHANGED <<heap, last_id, last_obj, memo, keep, hist, made, invs, nalloc, todo>>

\* An engine that memoizes every value, its own copy or not.
MemoizeAlways(t) ==
    /\ At(t, "dc", "memoize")
    /\ memo' = [memo EXCEPT ![t] = Upd(@, Top(t).x, Top(t).y)]
    /\ keep' = [keep EXCEPT ![t] = Append(@, Top(t).x)]
    /\ stack' = SetTop(t, [Top(t) EXCEPT !.pc = "set_id"])
    /\ UNCHANGED <<heap, last_id, last_obj, hist, made, invs, nalloc, todo>>

\* if y is not x: memo[d] = y; _keep_alive(x, memo)
Memoize(t) ==
    /\ At(t, "dc", "memoize")
    /\ IF Top(t).y # Top(t).x
       THEN /\ memo' = [memo EXCEPT ![t] = Upd(@, Top(t).x, Top(t).y)]
            /\ keep' = [keep EXCEPT ![t] = Append(@, Top(t).x)]
       ELSE UNCHANGED <<memo, keep>>
    /\ stack' = SetTop(t, [Top(t) EXCEPT !.pc = "set_id"])
    /\ UNCHANGED <<heap, last_id, last_obj, hist, made, invs, nalloc, todo>>

\* deepcopy._last_id = d
SetLastId(t) ==
    /\ At(t, "dc", "set_id")
    /\ last_id' = Top(t).x
    /\ stack' = SetTop(t, [Top(t) EXCEPT !.pc = "set_obj"])
    /\ UNCHANGED <<heap, last_obj, memo, keep, hist, made, invs, nalloc, todo>>

\* deepcopy._last_obj = y; return y
SetLastObjReturn(t) ==
    /\ At(t, "dc", "set_obj")
    /\ last_obj' = Top(t).y
    /\ Return(t, Top(t).y)
    /\ UNCHANGED <<heap, last_id, made, invs, nalloc, todo>>

\* ------------------------------------------------------------ _deepcopy_list
\* A list strategy that registers the copy only when it is complete.
ListMemoLate(m, x, y) == m

\* memo[id(x)] = y, before any element is copied
ListMemo(m, x, y) == Upd(m, x, y)

\* copier = _deepcopy_list: y = [None] * len(x); memo[id(x)] = y
CallList(t) ==
    /\ At(t, "dc", "dispatch")
    /\ DeepStrategy(heap[Top(t).x].ty) = "list"
    /\ LET x == Top(t).x
           y == NewId(t)
       IN /\ heap' = Upd(heap, y, Obj("list", [n \in DOMAIN heap[x].kids |-> None], <<>>, <<>>, None))
          /\ memo' = [memo EXCEPT ![t] = ListMemo(@, x, y)]
          /\ stack' = Push(t, [Frame("list", x, "iter") EXCEPT !.y = y])
          /\ made' = [made EXCEPT ![t] = @ \cup {y}]
    /\ nalloc' = [nalloc EXCEPT ![t] = @ + 1]
    /\ invs' = [invs EXCEPT ![t] = Append(@, Top(t).x)]
    /\ UNCHANGED <<last_id, last_obj, keep, hist, todo>>

\* for i, a in enumerate(x): ... deepcopy(a, memo)
ListCall(t) ==
    /\ At(t, "list", "iter")
    /\ Top(t).i <= Len(heap[Top(t).x].kids)
    /\ stack' = PushCall(t, heap[Top(t).x].kids[Top(t).i])
    /\ UNCHANGED <<heap, last_id, last_obj, memo, keep, hist, made, invs, nalloc, todo>>

\* A list routine that stores the copies of the elements in the source list.
ListStoreInPlace(t) ==
    /\ At(t, "list", "got")
    /\ heap' = [heap EXCEPT ![Top(t).x].kids[Top(t).i] = Top(t).r]
    /\ stack' = SetTop(t, [Top(t) EXCEPT !.i = @ + 1, !.pc = "iter"])
    /\ UNCHANGED <<last_id, last_obj, memo, keep, hist, made, invs, nalloc, todo>>

\* y[i] = <the value returned>
ListStore(t) ==
    /\ At(t, "list", "got")
    /\ heap' = [heap EXCEPT ![Top(t).y].kids[Top(t).i] = Top(t).r]
    /\ stack' = SetTop(t, [Top(t) EXCEPT !.i = @ + 1, !.pc = "iter"])
    /\ UNCHANGED <<last_id, last_obj, memo, keep, hist, made, invs, nalloc, todo>>

\* return y
ListReturn(t) ==
    /\ At(t, "list", "iter")
    /\ Top(t).i > Len(heap[Top(t).x].kids)
    /\ stack' = StrategyReturn(t, Top(t).y)
    /\ UNCHANGED <<heap, last_id, last_obj, memo, keep, hist, made, invs, nalloc, todo>>

\* ----------------------------------------------------------- _deepcopy_tuple
\* copier = _deepcopy_tuple
CallTuple(t) ==
    /\ At(t, "dc", "dispatch")
    /\ DeepStrategy(heap[Top(t).x].ty) = "tuple"
    /\ stack' = Push(t, Frame("tuple", Top(t).x, "iter"))
    /\ invs' = [invs EXCEPT ![t] = Append(@, Top(t).x)]
    /\ UNCHANGED <<heap, last_id, last_obj, memo, keep, hist, made, nalloc, todo>>

\* y = [deepcopy(a, memo) for a in x]: the next call
TupleCall(t) ==
    /\ At(t, "tuple", "iter")
    /\ Top(t).i <= Len(heap[Top(t).x].kids)
    /\ stack' = PushCall(t, heap[Top(t).x].kids[Top(t).i])
    /\ UNCHANGED <<heap, last_id, last_obj, memo, keep, hist, made, invs, nalloc, todo>>

\* y = [deepcopy(a, memo) for a in x]: the value joins the list
TupleStore(t) ==
    /\ At(t, "tuple", "got")
    /\ stack' = SetTop(t, [Top(t) EXCEPT !.acc = Append(@, Top(t).r), !.i = @ + 1, !.pc = "iter"])
    /\ UNCHANGED <<heap, last_id, last_obj, memo, keep, hist, made, invs, nalloc, todo>>

\* A tuple strategy without the second look into the memo table.
TupleInMemoNever(m, x) == FALSE

\* try: return memo[id(x)] / except KeyError: pass
TupleInMemo(m, x) == x \in DOMAIN m

\* A tuple strategy that builds a new tuple whatever its elements.
TupleChangedAlways(h, x, y) == TRUE

\* for k, j in zip(x, y): if k is not j: ... break
TupleChanged(h, x, y) == \E n \in DOMAIN y : h[x].kids[n] # y[n]

\* try: return memo[id(x)] ... for k, j in zip(x, y): if k is not j: y = tuple(y)
\* A tuple routine that builds its result from the copied elements without looking
\* into the memo table.
TupleReturnUnchecked(t) ==
    /\ At(t, "tuple", "iter")
    /\ Top(t).i > Len(heap[Top(t).x].kids)
    /\ LET x == Top(t).x
           y == Top(t).acc
       IN IF TupleChanged(heap, x, y)
          THEN /\ heap' = Upd(heap, NewId(t), Obj("tuple", y, <<>>, <<>>, None))
               /\ stack' = StrategyReturn(t, NewId(t))
               /\ made' = [made EXCEPT ![t] = @ \cup {NewId(t)}]
               /\ nalloc' = [nalloc EXCEPT ![t] = @ + 1]
          ELSE /\ stack' = StrategyReturn(t, x)
               /\ UNCHANGED <<heap, made, nalloc>>
    /\ UNCHANGED <<last_id, last_obj, memo, keep, hist, invs, todo>>

\* ... else: y = x; return y
TupleReturn(t) ==
    /\ At(t, "tuple", "iter")
    /\ Top(t).i > Len(heap[Top(t).x].kids)
    /\ LET x == Top(t).x
           y == Top(t).acc
       IN IF TupleInMemo(memo[t], x)
          THEN /\ stack' = StrategyReturn(t, memo[t][x])
               /\ UNCHANGED <<heap, made, nalloc>>
          ELSE IF TupleChanged(heap, x, y)
               THEN /\ heap' = Upd(heap, NewId(t), Obj("tuple", y, <<>>, <<>>, None))
                    /\ stack' = StrategyReturn(t, NewId(t))
                    /\ made' = [made EXCEPT ![t] = @ \cup {NewId(t)}]
                    /\ nalloc' = [nalloc EXCEPT ![t] = @ + 1]
               ELSE /\ stack' = StrategyReturn(t, x)
                    /\ UNCHANGED <<heap, made, nalloc>>
    /\ UNCHANGED <<last_id, last_obj, memo, keep, hist, invs, todo>>

\* ------------------------------------------------------------ _deepcopy_dict
\* An immutable-types tuple that lists list by mistake.
IsImmutableKeyTypeOrList(h, a) == IF a = 0 THEN TRUE ELSE h[a].kind \in {"atom", "fset", "list"}

\* isinstance(v, _IMMUTABLE_KEY_TYPES): int, float, str, bytes, frozenset, None.
\* Identity 0 is a string literal; the atomic values of the heap are ints.
IsImmutableKeyType(h, a) == IF a = 0 THEN TRUE ELSE h[a].kind \in {"atom", "fset"}

\* y[key_copy] = value_copy
DictSet(h, y, k, v) == [h EXCEPT ![y].keys = Append(@, k), ![y].kids = Append(@, v)]

\* A dict routine that does not register its destination.
CallDictUnregistered(t) ==
    /\ At(t, "dc", "dispatch")
    /\ DeepStrategy(heap[Top(t).x].ty) = "dict"
    /\ LET x == Top(t).x
           y == NewId(t)
       IN /\ heap' = Upd(heap, y, Obj("dict", <<>>, <<>>, <<>>, None))
          /\ stack' = Push(t, [Frame("dict", x, "iter") EXCEPT !.y = y, !.ph = "key"])
          /\ made' = [made EXCEPT ![t] = @ \cup {y}]
    /\ nalloc' = [nalloc EXCEPT ![t] = @ + 1]
    /\ invs' = [invs EXCEPT ![t] = Append(@, Top(t).x)]
    /\ UNCHANGED <<last_id, last_obj, memo, keep, hist, todo>>

\* copier = _deepcopy_dict: y = {}; memo[id(x)] = y
CallDict(t) ==
    /\ At(t, "dc", "dispatch")
    /\ DeepStrategy(heap[Top(t).x].ty) = "dict"
    /\ LET x == Top(t).x
           y == NewId(t)
       IN /\ heap' = Upd(heap, y, Obj("dict", <<>>, <<>>, <<>>, None))
          /\ memo' = [memo EXCEPT ![t] = Upd(@, x, y)]
          /\ stack' = Push(t, [Frame("dict", x, "iter") EXCEPT !.y = y, !.ph = "key"])
          /\ made' = [made EXCEPT ![t] = @ \cup {y}]
    /\ nalloc' = [nalloc EXCEPT ![t] = @ + 1]
    /\ invs' = [invs EXCEPT ![t] = Append(@, Top(t).x)]
    /\ UNCHANGED <<last_id, last_obj, keep, hist, todo>>

\* if isinstance(key, _IMMUTABLE_KEY_TYPES): key_copy = key
DictKeyReuse(t) ==
    /\ At(t, "dict", "iter")
    /\ Top(t).ph = "key"
    /\ Top(t).i <= Len(heap[Top(t).x].kids)
    /\ IsImmutableKeyType(heap, heap[Top(t).x].keys[Top(t).i])
    /\ stack' = SetTop(t, [Top(t) EXCEPT !.k = heap[Top(t).x].keys[Top(t).i], !.ph = "val"])
    /\ UNCHANGED <<heap, last_id, last_obj, memo, keep, hist, made, invs, nalloc, todo>>

\* else: ... deepcopy(key, memo)
DictKeyCall(t) ==
    /\ At(t, "dict", "iter")
    /\ Top(t).ph = "key"
    /\ Top(t).i <= Len(heap[Top(t).x].kids)
    /\ ~IsImmutableKeyType(heap, heap[Top(t).x].keys[Top(t).i])
    /\ stack' = PushCall(t, heap[Top(t).x].keys[Top(t).i])
    /\ UNCHANGED <<heap, last_id, last_obj, memo, keep, hist, made, invs, nalloc, todo>>

\* key_copy = <the value returned>
DictKeyStore(t) ==
    /\ At(t, "dict", "got")
    /\ Top(t).ph = "key"
    /\ stack' = SetTop(t, [Top(t) EXCEPT !.k = Top(t).r, !.ph = "val", !.pc = "iter"])
    /\ UNCHANGED <<heap, last_id, last_obj, memo, keep, hist, made, invs, nalloc, todo>>

\* if isinstance(value, _IMMUTABLE_KEY_TYPES): value_copy = value; y[key_copy] = value_copy
DictValueReuse(t) ==
    /\ At(t, "dict", "iter")
    /\ Top(t).ph = "val"
    /\ IsImmutableKeyType(heap, heap[Top(t).x].kids[Top(t).i])
    /\ heap' = DictSet(heap, Top(t).y, Top(t).k, heap[Top(t).x].kids[Top(t).i])
    /\ stack' = SetTop(t, [Top(t) EXCEPT !.i = @ + 1, !.ph = "key"])
    /\ UNCHANGED <<last_id, last_obj, memo, keep, hist, made, invs, nalloc, todo>>

\* else: ... deepcopy(value, memo)
DictValueCall(t) ==
    /\ At(t, "dict", "iter")
    /\ Top(t).ph = "val"
    /\ ~IsImmutableKeyType(heap, heap[Top(t).x].kids[Top(t).i])
    /\ stack' = PushCall(t, heap[Top(t).x].kids[Top(t).i])
    /\ UNCHANGED <<heap, last_id, last_obj, memo, keep, hist, made, invs, nalloc, todo>>

\* value_copy = <the value returned>; y[key_copy] = value_copy
DictValueStore(t) ==
    /\ At(t, "dict", "got")
    /\ Top(t).ph = "val"
    /\ heap' = DictSet(heap, Top(t).y, Top(t).k, Top(t).r)
    /\ stack' = SetTop(t, [Top(t) EXCEPT !.i = @ + 1, !.ph = "key", !.pc = "iter"])
    /\ UNCHANGED <<last_id, last_obj, memo, keep, hist, made, invs, nalloc, todo>>

\* return y
DictReturn(t) ==
    /\ At(t, "dict", "iter")
    /\ Top(t).ph = "key"
    /\ Top(t).i > Len(heap[Top(t).x].kids)
    /\ stack' = StrategyReturn(t, Top(t).y)
    /\ UNCHANGED <<heap, last_id, last_obj, memo, keep, hist, made, invs, nalloc, todo>>

\* -------------------------------------------------------------- _reconstruct
\* What the reductor of x gives besides func and args: state (its __dict__),
\* listiter (the items of a list subclass), dictiter (the items of a dict subclass).
HasState(h, x) == h[x].state # None

HasListIter(h, x) == h[x].kind = "obj" /\ h[x].kids # <<>> /\ h[x].keys = <<>>

HasDictIter(h, x) == h[x].kind = "obj" /\ h[x].keys # <<>>

\* A reconstruction that goes on to the items without copying and applying the state.
PhaseFromWithoutState(h, x, n) ==
    IF n <= 2 /\ HasListIter(h, x) THEN "list"
    ELSE IF n <= 3 /\ HasDictIter(h, x) THEN "dkey"
    ELSE "done"

\* The part of _reconstruct that runs next, from part n on: state, listiter,
\* dictiter, return.
PhaseFrom(h, x, n) ==
    IF n <= 1 /\ HasState(h, x) THEN "state"
    ELSE IF n <= 2 /\ HasListIter(h, x) THEN "list"
    ELSE IF n <= 3 /\ HasDictIter(h, x) THEN "dkey"
    ELSE "done"

\* reductor = getattr(x, "__reduce_ex__", None); rv = reductor(4);
\* y = _reconstruct(x, memo, *rv).  A set or frozenset reduces to (type(x), (list(x),)),
\* a list of its elements made for the occasion; an instance to its factory's
\* arguments, its __dict__ and, for a list subclass, an iterator over its items.
CallReconstruct(t) ==
    /\ At(t, "dc", "dispatch")
    /\ DeepStrategy(heap[Top(t).x].ty) = "reduce"
    /\ LET x == Top(t).x
           l == NewId(t)
       IN IF heap[x].kind = "obj"
          THEN /\ stack' = Push(t, [Frame("recon", x, "iter") EXCEPT !.ph = "args", !.rargs = heap[x].args])
               /\ UNCHANGED <<heap, made, nalloc>>
          ELSE /\ heap' = Upd(heap, l, Obj("list", heap[x].kids, <<>>, <<>>, None))
               /\ stack' = Push(t, [Frame("recon", x, "iter") EXCEPT !.ph = "args", !.rargs = <<l>>])
               /\ made' = [made EXCEPT ![t] = @ \cup {l}]
               /\ nalloc' = [nalloc EXCEPT ![t] = @ + 1]
    /\ invs' = [invs EXCEPT ![t] = Append(@, Top(t).x)]
    /\ UNCHANGED <<last_id, last_obj, memo, keep, hist, todo>>

\* args = tuple(deepcopy(arg, memo) for arg in args): the next call
ReconArgCall(t) ==
    /\ At(t, "recon", "iter")
    /\ Top(t).ph = "args"
    /\ Top(t).i <= Len(Top(t).rargs)
    /\ stack' = PushCall(t, Top(t).rargs[Top(t).i])
    /\ UNCHANGED <<heap, last_id, last_obj, memo, keep, hist, made, invs, nalloc, todo>>

\* args = tuple(deepcopy(arg, memo) for arg in args): the value joins the tuple
ReconArgStore(t) ==
    /\ At(t, "recon", "got")
    /\ Top(t).ph = "args"
    /\ stack' = SetTop(t, [Top(t) EXCEPT !.acc = Append(@, Top(t).r), !.i = @ + 1, !.pc = "iter"])
    /\ UNCHANGED <<heap, last_id, last_obj, memo, keep, hist, made, invs, nalloc, todo>>

\* A reconstruction that does not register the new instance.
ReconMemoNever(m, x, y) == m

\* if deep: memo[id(x)] = y, before state and items are copied
ReconMemo(m, x, y) == Upd(m, x, y)

\* y = func(*args); if deep: memo[id(x)] = y
ReconConstruct(t) ==
    /\ At(t, "recon", "iter")
    /\ Top(t).ph = "args"
    /\ Top(t).i > Len(Top(t).rargs)
    /\ heap[Top(t).x].ty.fails # "factory"
    /\ LET x == Top(t).x
           y == NewId(t)
       IN /\ heap' = Upd(heap, y,
                IF heap[x].kind = "obj"
                THEN [Obj("obj", <<>>, <<>>, Top(t).acc, None) EXCEPT !.ty = heap[x].ty]
                ELSE Obj(heap[x].kind, heap[Top(t).acc[1]].kids, <<>>, <<>>, None))
          /\ memo' = [memo EXCEPT ![t] = ReconMemo(@, x, y)]
          /\ stack' = SetTop(t, [Top(t) EXCEPT !.y = y, !.ph = PhaseFrom(heap, x, 1), !.i = 1, !.acc = <<>>])
          /\ made' = [made EXCEPT ![t] = @ \cup {y}]
    /\ nalloc' = [nalloc EXCEPT ![t] = @ + 1]
    /\ UNCHANGED <<last_id, last_obj, keep, hist, invs, todo>>

\* if state is not None: if deep: state = deepcopy(state, memo)
ReconStateCall(t) ==
    /\ At(t, "recon", "iter")
    /\ Top(t).ph = "state"
    /\ stack' = PushCall(t, heap[Top(t).x].state)
    /\ UNCHANGED <<heap, last_id, last_obj, memo, keep, hist, made, invs, nalloc, todo>>

\* setstate is None; if isinstance(state, dict): y.__dict__.update(state).
\* The new instance has a __dict__ of its own, which receives the items.
ReconStateApply(t) ==
    /\ At(t, "recon", "got")
    /\ Top(t).ph = "state"
    /\ heap[Top(t).x].ty.fails # "setstate"
    /\ heap[Top(t).r].kind = "dict"
    /\ LET d == NewId(t)
           st == heap[Top(t).r]
       IN /\ heap' = [Upd(heap, d, Obj("dict", st.kids, st.keys, <<>>, None))
                        EXCEPT ![Top(t).y].state = d]
          /\ made' = [made EXCEPT ![t] = @ \cup {d}]
    /\ stack' = SetTop(t, [Top(t) EXCEPT !.ph = PhaseFrom(heap, Top(t).x, 2), !.i = 1, !.pc = "iter"])
    /\ nalloc' = [nalloc EXCEPT ![t] = @ + 1]
    /\ UNCHANGED <<last_id, last_obj, memo, keep, hist, invs, todo>>

\* y.extend(deepcopy(item, memo) for item in listiter): the next call
ReconListCall(t) ==
    /\ At(t, "recon", "iter")
    /\ Top(t).ph = "list"
    /\ Top(t).i <= Len(heap[Top(t).x].kids)
    /\ stack' = PushCall(t, heap[Top(t).x].kids[Top(t).i])
    /\ UNCHANGED <<heap, last_id, last_obj, memo, keep, hist, made, invs, nalloc, todo>>

\* y.extend(deepcopy(item, memo) for item in listiter): the value is appended
ReconListStore(t) ==
    /\ At(t, "recon", "got")
    /\ Top(t).ph = "list"
    /\ heap' = [heap EXCEPT ![Top(t).y].kids = Append(@, Top(t).r)]
    /\ stack' = SetTop(t, [Top(t) EXCEPT !.i = @ + 1, !.pc = "iter"])
    /\ UNCHANGED <<last_id, last_obj, memo, keep, hist, made, invs, nalloc, todo>>

\* y.extend(...) has consumed listiter
ReconListEnd(t) ==
    /\ At(t, "recon", "iter")
    /\ Top(t).ph = "list"
    /\ Top(t).i > Len(heap[Top(t).x].kids)
    /\ stack' = SetTop(t, [Top(t) EXCEPT !.ph = PhaseFrom(heap, Top(t).x, 3), !.i = 1])
    /\ UNCHANGED <<heap, last_id, last_obj, memo, keep, hist, made, invs, nalloc, todo>>

\* {deepcopy(k, memo): deepcopy(v, memo) for (k, v) in dictiter}: the call for k
ReconDictKeyCall(t) ==
    /\ At(t, "recon", "iter")
    /\ Top(t).ph = "dkey"
    /\ Top(t).i <= Len(heap[Top(t).x].keys)
    /\ stack' = PushCall(t, heap[Top(t).x].keys[Top(t).i])
    /\ UNCHANGED <<heap, last_id, last_obj, memo, keep, hist, made, invs, nalloc, todo>>

ReconDictKeyStore(t) ==
    /\ At(t, "recon", "got")
    /\ Top(t).ph = "dkey"
    /\ stack' = SetTop(t, [Top(t) EXCEPT !.k = Top(t).r, !.ph = "dval", !.pc = "iter"])
    /\ UNCHANGED <<heap, last_id, last_obj, memo, keep, hist, made, invs, nalloc, todo>>

\* {deepcopy(k, memo): deepcopy(v, memo) for (k, v) in dictiter}: the call for v
ReconDictValueCall(t) ==
    /\ At(t, "recon", "iter")
    /\ Top(t).ph = "dval"
    /\ stack' = PushCall(t, heap[Top(t).x].kids[Top(t).i])
    /\ UNCHANGED <<heap, last_id, last_obj, memo, keep, hist, made, invs, nalloc, todo>>

\* The pair joins the dict under construction (acc holds key, value, key, value ...).
ReconDictValueStore(t) ==
    /\ At(t, "recon", "got")
    /\ Top(t).ph = "dval"
    /\ stack' = SetTop(t, [Top(t) EXCEPT !.acc = @ \o <<Top(t).k, Top(t).r>>, !.i = @ + 1,
                                          !.ph = "dkey", !.pc = "iter"])
    /\ UNCHANGED <<heap, last_id, last_obj, memo, keep, hist, made, invs, nalloc, todo>>

\* y.update({...}): the finished dict is merged into y
ReconDictUpdate(t) ==
    /\ At(t, "recon", "iter")
    /\ Top(t).ph = "dkey"
    /\ Top(t).i > Len(heap[Top(t).x].keys)
    /\ LET n == Len(Top(t).acc) \div 2
       IN heap' = [heap EXCEPT ![Top(t).y].keys = [m \in 1 .. n |-> Top(t).acc[2 * m - 1]],
                                ![Top(t).y].kids = [m \in 1 .. n |-> Top(t).acc[2 * m]]]
    /\ stack' = SetTop(t, [Top(t) EXCEPT !.ph = "done"])
    /\ UNCHANGED <<last_id, last_obj, memo, keep, hist, made, invs, nalloc, todo>>

\* return y
ReconReturn(t) ==
    /\ At(t, "recon", "iter")
    /\ Top(t).ph = "done"
    /\ stack' = StrategyReturn(t, Top(t).y)
    /\ UNCHANGED <<heap, last_id, last_obj, memo, keep, hist, made, invs, nalloc, todo>>

\* ------------------------------------------------------------------ override
\* copier = getattr(x, "__deepcopy__", None); y = copier(memo).  The override is the
\* type's own code; the model knows it by the object it returns.
CallHook(t) ==
    /\ At(t, "dc", "dispatch")
    /\ DeepStrategy(heap[Top(t).x].ty) = "hook"
    /\ heap[Top(t).x].ty.fails # "override"
    /\ heap[Top(t).x].ty.dhook > 0
    /\ stack' = SetTop(t, [Top(t) EXCEPT !.y = heap[Top(t).x].ty.dhook, !.pc = "memoize"])
    /\ invs' = [invs EXCEPT ![t] = Append(@, Top(t).x)]
    /\ UNCHANGED <<heap, last_id, last_obj, memo, keep, hist, made, nalloc, todo>>

\* What a type's __deepcopy__ does, when it is not known by the value it returns.
\* MemoAware: it makes a new instance, enters it in the memo it was given and copies
\* every field with deepcopy(field, memo).  CopiesList: the override of the
\* benchmark's class A, which ignores the memo and returns
\* A(self.string, self.lst.copy(), self.boolean).
MemoAware == -1

CopiesList == -2

\* An engine that hands the override a memo table of its own.
HookMemoFresh(m, x, y) == Upd(EmptyFn, x, y)

\* The memo the override was given, after the override entered its new instance.
HookMemo(m, x, y) == Upd(m, x, y)

\* y = copier(memo), for a memo-aware override: y = cls.__new__(cls); memo[id(x)] = y
CallHookMemo(t) ==
    /\ At(t, "dc", "dispatch")
    /\ DeepStrategy(heap[Top(t).x].ty) = "hook"
    /\ heap[Top(t).x].ty.fails # "override"
    /\ heap[Top(t).x].ty.dhook = MemoAware
    /\ LET x == Top(t).x
           y == NewId(t)
       IN /\ heap' = Upd(heap, y, [Obj("obj", <<>>, <<>>, <<>>, None) EXCEPT !.ty = heap[x].ty])
          /\ memo' = [memo EXCEPT ![t] = HookMemo(@, x, y)]
          /\ stack' = Push(t, [Frame("hook", x, "iter") EXCEPT !.y = y])
          /\ made' = [made EXCEPT ![t] = @ \cup {y}]
    /\ nalloc' = [nalloc EXCEPT ![t] = @ + 1]
    /\ invs' = [invs EXCEPT ![t] = Append(@, Top(t).x)]
    /\ UNCHANGED <<last_id, last_obj, keep, hist, todo>>

\* the override calls deepcopy(field, memo) for its next field
HookFieldCall(t) ==
    /\ At(t, "hook", "iter")
    /\ Top(t).i <= Len(heap[Top(t).x].args)
    /\ stack' = PushCall(t, heap[Top(t).x].args[Top(t).i])
    /\ UNCHANGED <<heap, last_id, last_obj, memo, keep, hist, made, invs, nalloc, todo>>

\* the override sets the field of the new instance to the value returned
HookFieldStore(t) ==
    /\ At(t, "hook", "got")
    /\ heap' = [heap EXCEPT ![Top(t).y].args = Append(@, Top(t).r)]
    /\ stack' = SetTop(t, [Top(t) EXCEPT !.i = @ + 1, !.pc = "iter"])
    /\ UNCHANGED <<last_id, last_obj, memo, keep, hist, made, invs, nalloc, todo>>

\* the override returns its new instance: y = copier(memo)
HookReturn(t) ==
    /\ At(t, "hook", "iter")
    /\ Top(t).i > Len(heap[Top(t).x].args)
    /\ stack' = StrategyReturn(t, Top(t).y)
    /\ UNCHANGED <<heap, last_id, last_obj, memo, keep, hist, made, invs, nalloc, todo>>

\* y = copier(memo), for the override of class A: a new instance around a new list
\* that holds the elements of self.lst
CallHookA(t) ==
    /\ At(t, "dc", "dispatch")
    /\ DeepStrategy(heap[Top(t).x].ty) = "hook"
    /\ heap[Top(t).x].ty.fails # "override"
    /\ heap[Top(t).x].ty.dhook = CopiesList
    /\ LET x == Top(t).x
           l == NewId(t)
           y == NewId(t) + 1
       IN /\ heap' = Upd(Upd(heap, l, Obj("list", heap[heap[x].args[1]].kids, <<>>, <<>>, None)),
                         y, [Obj("obj", <<>>, <<>>, <<l>>, None) EXCEPT !.ty = heap[x].ty])
          /\ stack' = SetTop(t, [Top(t) EXCEPT !.y = y, !.pc = "memoize"])
          /\ made' = [made EXCEPT ![t] = @ \cup {l, y}]
    /\ nalloc' = [nalloc EXCEPT ![t] = @ + 2]
    /\ invs' = [invs EXCEPT ![t] = Append(@, Top(t).x)]
    /\ UNCHANGED <<last_id, last_obj, memo, keep, hist, todo>>

\* ------------------------------------------------------------------ failures
\* An engine that takes a value without any strategy for its own copy.
RaiseUncopyableNever(t) ==
    /\ At(t, "dc", "dispatch")
    /\ DeepStrategy(heap[Top(t).x].ty) = "fail"
    /\ stack' = SetTop(t, [Top(t) EXCEPT !.y = Top(t).x, !.pc = "memoize"])
    /\ UNCHANGED <<heap, last_id, last_obj, memo, keep, hist, made, invs, nalloc, todo>>

\* raise Error("un(deep)copyable object of type %s" % cls)
RaiseUncopyable(t) ==
    /\ At(t, "dc", "dispatch")
    /\ DeepStrategy(heap[Top(t).x].ty) = "fail"
    /\ Raise(t, "Error")
    /\ UNCHANGED <<heap, last_id, last_obj, made, invs, nalloc, todo>>

\* The interpreter refuses the call that would exceed its recursion limit.
RaiseRecursionError(t) ==
    /\ At(t, "dc", "check")
    /\ Len(stack[t]) > MaxDepth
    /\ Raise(t, "RecursionError")
    /\ UNCHANGED <<heap, last_id, last_obj, made, invs, nalloc, todo>>

\* y = copier(memo), where the override raises
RaiseOverride(t) ==
    /\ At(t, "dc", "dispatch")
    /\ DeepStrategy(heap[Top(t).x].ty) = "hook"
    /\ heap[Top(t).x].ty.fails = "override"
    /\ Raise(t, "KeyError")
    /\ UNCHANGED <<heap, last_id, last_obj, made, invs, nalloc, todo>>

\* y = func(*args), where the factory raises
RaiseFactory(t) ==
    /\ At(t, "recon", "iter")
    /\ Top(t).ph = "args"
    /\ Top(t).i > Len(Top(t).rargs)
    /\ heap[Top(t).x].ty.fails = "factory"
    /\ Raise(t, "KeyError")
    /\ UNCHANGED <<heap, last_id, last_obj, made, invs, nalloc, todo>>

\* setstate = getattr(y, '__setstate__', None); setstate(state), where it raises
RaiseSetstate(t) ==
    /\ At(t, "recon", "got")
    /\ Top(t).ph = "state"
    /\ heap[Top(t).x].ty.fails = "setstate"
    /\ Raise(t, "KeyError")
    /\ UNCHANGED <<heap, last_id, last_obj, made, invs, nalloc, todo>>

\* ---------------------------------------------------------------------- copy
\* The strategy copy resolves for a value of type ty: _copy_dispatch.get(cls), else
\* issubclass(cls, type), else getattr(cls, "__copy__"), else the reductor, else Error.
ShallowStrategy(ty) ==
    IF ty.ctable # "" THEN ty.ctable
    ELSE IF ty.istype THEN "immutable"
    ELSE IF ty.chook # None THEN "hook"
    ELSE IF ty.proto THEN "reduce"
    ELSE "fail"

\* A shallow copy that leaves its result in the one-entry cache of deepcopy.
ShallowCopyCached(t) ==
    /\ stack[t] = <<>>
    /\ todo[t] # <<>>
    /\ Head(todo[t]).op = "copy"
    /\ LET x == Head(todo[t]).x
           y == NewId(t)
           d == NewId(t) + 1
           how == ShallowStrategy(heap[x].ty)
       IN CASE how = "immutable" ->
                 /\ hist' = [hist EXCEPT ![t] = Append(@, Done("copy", x, x, "ok", {}))]
                 /\ UNCHANGED <<heap, nalloc>>
            [] how = "copy" ->
                 /\ heap' = Upd(heap, y, heap[x])
                 /\ hist' = [hist EXCEPT ![t] = Append(@, Done("copy", x, y, "ok", {y}))]
                 /\ nalloc' = [nalloc EXCEPT ![t] = @ + 1]
            [] how = "hook" ->
                 /\ hist' = [hist EXCEPT ![t] = Append(@, Done("copy", x, heap[x].ty.chook, "ok", {}))]
                 /\ UNCHANGED <<heap, nalloc>>
            [] how = "reduce" /\ heap[x].kind = "obj" /\ heap[x].state = None ->
                 /\ heap' = Upd(heap, y, heap[x])
                 /\ hist' = [hist EXCEPT ![t] = Append(@, Done("copy", x, y, "ok", {y}))]
                 /\ nalloc' = [nalloc EXCEPT ![t] = @ + 1]
            [] how = "reduce" /\ heap[x].kind = "obj" /\ heap[x].state # None ->
                 /\ heap' = Upd(Upd(heap, d, heap[heap[x].state]), y, [heap[x] EXCEPT !.state = d])
                 /\ hist' = [hist EXCEPT ![t] = Append(@, Done("copy", x, y, "ok", {y, d}))]
                 /\ nalloc' = [nalloc EXCEPT ![t] = @ + 2]
            [] OTHER ->
                 /\ hist' = [hist EXCEPT ![t] = Append(@, Failed("copy", x, "Error", x, {}))]
                 /\ UNCHANGED <<heap, nalloc>>
    /\ todo' = [todo EXCEPT ![t] = Tail(@)]
    /\ last_id' = Head(todo[t]).x
    /\ last_obj' = hist'[t][Len(hist'[t])].y
    /\ UNCHANGED <<stack, memo, keep, made, invs>>

\* copy(x): _copy_dispatch returns an immutable value itself and copies a list, a
\* dict or a set with its own copy method; an instance goes through
\* _reconstruct(x, None, *rv), which copies neither args, state nor items.
ShallowCopy(t) ==
    /\ stack[t] = <<>>
    /\ todo[t] # <<>>
    /\ Head(todo[t]).op = "copy"
    /\ LET x == Head(todo[t]).x
           y == NewId(t)
           d == NewId(t) + 1
           how == ShallowStrategy(heap[x].ty)
       IN CASE how = "immutable" ->
                 /\ hist' = [hist EXCEPT ![t] = Append(@, Done("copy", x, x, "ok", {}))]
                 /\ UNCHANGED <<heap, nalloc>>
            [] how = "copy" ->
                 /\ heap' = Upd(heap, y, heap[x])
                 /\ hist' = [hist EXCEPT ![t] = Append(@, Done("copy", x, y, "ok", {y}))]
                 /\ nalloc' = [nalloc EXCEPT ![t] = @ + 1]
            [] how = "hook" ->
                 /\ hist' = [hist EXCEPT ![t] = Append(@, Done("copy", x, heap[x].ty.chook, "ok", {}))]
                 /\ UNCHANGED <<heap, nalloc>>
            [] how = "reduce" /\ heap[x].kind = "obj" /\ heap[x].state = None ->
                 /\ heap' = Upd(heap, y, heap[x])
                 /\ hist' = [hist EXCEPT ![t] = Append(@, Done("copy", x, y, "ok", {y}))]
                 /\ nalloc' = [nalloc EXCEPT ![t] = @ + 1]
            [] how = "reduce" /\ heap[x].kind = "obj" /\ heap[x].state # None ->
                 /\ heap' = Upd(Upd(heap, d, heap[heap[x].state]), y, [heap[x] EXCEPT !.state = d])
                 /\ hist' = [hist EXCEPT ![t] = Append(@, Done("copy", x, y, "ok", {y, d}))]
                 /\ nalloc' = [nalloc EXCEPT ![t] = @ + 2]
            [] OTHER ->
                 /\ hist' = [hist EXCEPT ![t] = Append(@, Failed("copy", x, "Error", x, {}))]
                 /\ UNCHANGED <<heap, nalloc>>
    /\ todo' = [todo EXCEPT ![t] = Tail(@)]
    /\ UNCHANGED <<last_id, last_obj, stack, memo, keep, made, invs>>

\* ------------------------------------------------------------ specifications
ToDo(op, x) == [op |-> op, x |-> x]

Idle == [t \in Threads |-> <<>>]

InitEngine ==
    /\ last_id = None
    /\ last_obj = None
    /\ stack = Idle
    /\ memo = [t \in Threads |-> EmptyFn]
    /\ keep = Idle
    /\ hist = Idle
    /\ made = [t \in Threads |-> {}]
    /\ invs = Idle
    /\ nalloc = [t \in Threads |-> 0]

\* One caller deep-copies the root of a graph of lists, tuples, dicts and frozensets.
Init ==
    /\ IsSrcGraph(BuiltinShapes, MaxRefs, heap)
    /\ todo = [t \in Threads |-> IF t = 1 THEN <<ToDo("deepcopy", Root)>> ELSE <<>>]
    /\ InitEngine

DeepCopyStep(t) ==
    \/ Call(t) \/ ResetLastId(t) \/ ResetLastObj(t) \/ CheckLast(t) \/ FastReturn(t)
    \/ HitSetLastId(t) \/ HitReturn(t) \/ CopyAtomic(t)
    \/ Memoize(t) \/ SetLastId(t) \/ SetLastObjReturn(t)
    \/ CallList(t) \/ ListCall(t) \/ ListStore(t) \/ ListReturn(t)
    \/ CallTuple(t) \/ TupleCall(t) \/ TupleStore(t) \/ TupleReturn(t)
    \/ CallDict(t) \/ DictKeyReuse(t) \/ DictKeyCall(t) \/ DictKeyStore(t)
    \/ DictValueReuse(t) \/ DictValueCall(t) \/ DictValueStore(t) \/ DictReturn(t)
    \/ CallReconstruct(t) \/ ReconArgCall(t) \/ ReconArgStore(t) \/ ReconConstruct(t)
    \/ ReconReturn(t)

Next == \E t \in Threads : DeepCopyStep(t)

Spec == Init /\ [][Next]_vars

\* The same caller and the same call, on the graphs with up to MaxAliasRefs
\* references: a frozenset that is both an element and a dict value takes four.
AliasInit ==
    /\ IsSrcGraph(BuiltinShapes, MaxAliasRefs, heap)
    /\ todo = [t \in Threads |-> IF t = 1 THEN <<ToDo("deepcopy", Root)>> ELSE <<>>]
    /\ InitEngine

AliasSpec == AliasInit /\ [][Next]_vars

\* One caller makes MaxCalls calls in a row, each copy(x) or deepcopy(x), the first
\* of the root and the others of the root or of object 3, on a graph of any kinds.
ObjInit ==
    /\ IsSrcGraph(AllShapes, MaxObjRefs, heap)
    /\ \E q \in [1 .. MaxCalls -> {ToDo(op, x) : op \in {"deepcopy", "copy"}, x \in {3, Root}}] :
          /\ q[1].x = Root
          /\ todo = [t \in Threads |-> IF t = 1 THEN q ELSE <<>>]
    /\ InitEngine

ObjStep(t) ==
    \/ DeepCopyStep(t)
    \/ ReconStateCall(t) \/ ReconStateApply(t)
    \/ ReconListCall(t) \/ ReconListStore(t) \/ ReconListEnd(t)
    \/ ReconDictKeyCall(t) \/ ReconDictKeyStore(t) \/ ReconDictValueCall(t)
    \/ ReconDictValueStore(t) \/ ReconDictUpdate(t)
    \/ RaiseUncopyable(t) \/ RaiseRecursionError(t) \/ ShallowCopy(t)

ObjNext == \E t \in Threads : ObjStep(t)

ObjSpec == ObjInit /\ [][ObjNext]_vars

\* Two callers, one call each, on a heap of lists: the first deep-copies the root,
\* the second the root too or object 3.
ListShapes[r \in 0 .. MaxConcRefs] == {q \in ShapesOf("list") : ShapeRefs(q) <= r}

ConcInit ==
    /\ \E s4 \in ListShapes[MaxConcRefs] :
          \E s3 \in ListShapes[MaxConcRefs - ShapeRefs(s4)] :
              \E s2 \in ListShapes[MaxConcRefs - ShapeRefs(s4) - ShapeRefs(s3)] :
                  heap = Graph(s2, s3, s4)
    /\ \E x \in {3, Root} :
          todo = [t \in Threads |-> IF t = 1 THEN <<ToDo("deepcopy", Root)>> ELSE <<ToDo("deepcopy", x)>>]
    /\ InitEngine

ConcStep(t) ==
    \/ Call(t) \/ ResetLastId(t) \/ ResetLastObj(t) \/ CheckLast(t) \/ FastReturn(t)
    \/ HitSetLastId(t) \/ HitReturn(t) \/ CopyAtomic(t)
    \/ Memoize(t) \/ SetLastId(t) \/ SetLastObjReturn(t)
    \/ CallList(t) \/ ListCall(t) \/ ListStore(t) \/ ListReturn(t)

ConcNext == \E t \in Threads : ConcStep(t)

ConcSpec == ConcInit /\ [][ConcNext]_vars

\* ---------------------------------------------------------------- properties
\* The finished top-level calls of thread t, oldest first.
Calls(t) == {n \in DOMAIN hist[t] : TRUE}

DeepOk(c) == c.op = "deepcopy" /\ c.status = "ok"

\* The pairs of referents found at the same position of a and of b.
Pairs(h, a, b) ==
    {p \in {<<h[a].kids[n], h[b].kids[n]>> : n \in DOMAIN h[a].kids \cap DOMAIN h[b].kids}
           \cup {<<h[a].keys[n], h[b].keys[n]>> : n \in DOMAIN h[a].keys \cap DOMAIN h[b].keys}
           \cup {<<h[a].args[n], h[b].args[n]>> : n \in DOMAIN h[a].args \cap DOMAIN h[b].args}
           \cup {<<h[a].state, h[b].state>>} : p[1] # 0}

RECURSIVE CorrFrom(_, _, _)
CorrFrom(h, seen, front) ==
    IF front = {} THEN seen
    ELSE LET nxt == UNION {Pairs(h, p[1], p[2]) : p \in {q \in front : q[2] # 0}}
                        \ (seen \cup front)
         IN CorrFrom(h, seen \cup front, nxt)

\* The correspondence between the graph of x and the graph of y: <<a, b>> is in it
\* when some path of positions from x leads to a and the same path from y leads to b.
Corr(h, x, y) == CorrFrom(h, {}, {<<x, y>>})

Functional(R) == \A p, q \in R : p[1] = q[1] => p[2] = q[2]

OneToOne(R) == \A p, q \in R : p[2] = q[2] => p[1] = q[1]

\* b has the kind and the arity of a, and is a itself when a is an atomic value.
SameShape(h, a, b) ==
    IF b = 0 THEN FALSE
    ELSE /\ h[b].kind = h[a].kind
         /\ Len(h[b].kids) = Len(h[a].kids)
         /\ Len(h[b].keys) = Len(h[a].keys)
         /\ Len(h[b].args) = Len(h[a].args)
         /\ (h[b].state = None) = (h[a].state = None)
         /\ \A n \in DOMAIN h[a].keys : (h[b].keys[n] = 0) = (h[a].keys[n] = 0)
         /\ h[a].kind = "atom" => b = a

\* y is element-wise equal to x at every depth.
EqualDeep(h, x, y) == \A p \in Corr(h, x, y) : SameShape(h, p[1], p[2])

KindsOf(h, x) == {h[a].kind : a \in Reach(h, x)}

\* C1: in one top-level deepcopy(x), a source object reachable at several positions
\* of x's graph has one single counterpart in the result: all the corresponding
\* positions of the result refer to the same object.
C1_AliasingPreserved ==
    \A t \in Threads : \A n \in Calls(t) :
        DeepOk(hist[t][n]) => Functional(Corr(heap, hist[t][n].x, hist[t][n].y))

\* C2: the deep copy of a graph of lists, dicts, tuples and atomic values that holds
\* a cycle is a new graph of the same shape, object for object, and the counterpart
\* of an object on a cycle is a new object on a cycle.
C2_CyclesPreserved ==
    \A t \in Threads : \A n \in Calls(t) :
        LET c == hist[t][n]
            R == Corr(heap, c.x, c.y)
        IN (/\ DeepOk(c)
            /\ KindsOf(heap, c.x) \subseteq {"atom", "list", "dict", "tuple"}
            /\ \E a \in Reach(heap, c.x) : OnCycle(heap, a))
           => /\ c.y \in c.made
              /\ Functional(R)
              /\ OneToOne(R)
              /\ \A p \in R :
                    /\ SameShape(heap, p[1], p[2])
                    /\ OnCycle(heap, p[1]) => (p[2] \in c.made /\ OnCycle(heap, p[2]))

\* A finished deep copy of a tuple that lies on a cycle through another container.
C2_Witness ==
    /\ Len(hist[1]) = 1
    /\ DeepOk(hist[1][1])
    /\ heap[Root].kind = "tuple"
    /\ OnCycle(heap, Root)
    /\ KindsOf(heap, Root) \subseteq {"atom", "list", "dict", "tuple"}
    /\ hist[1][1].y \in hist[1][1].made

\* One caller deep-copies the root of a graph of lists, tuples and dicts, and a
\* thread that can take a step eventually takes one: a running call is never
\* suspended for ever.
PlainShapes[r \in 0 .. MaxRefs] ==
    {q \in UNION {ShapesOf(kd) : kd \in {"list", "tuple", "dict"}} : ShapeRefs(q) <= r}

PlainInit ==
    /\ IsSrcGraph(PlainShapes, MaxRefs, heap)
    /\ todo = [t \in Threads |-> IF t = 1 THEN <<ToDo("deepcopy", Root)>> ELSE <<>>]
    /\ InitEngine

PlainStep(t) ==
    \/ Call(t) \/ ResetLastId(t) \/ ResetLastObj(t) \/ CheckLast(t) \/ FastReturn(t)
    \/ HitSetLastId(t) \/ HitReturn(t) \/ CopyAtomic(t)
    \/ Memoize(t) \/ SetLastId(t) \/ SetLastObjReturn(t)
    \/ CallList(t) \/ ListCall(t) \/ ListStore(t) \/ ListReturn(t)
    \/ CallTuple(t) \/ TupleCall(t) \/ TupleStore(t) \/ TupleReturn(t)
    \/ CallDict(t) \/ DictKeyReuse(t) \/ DictKeyCall(t) \/ DictKeyStore(t)
    \/ DictValueReuse(t) \/ DictValueCall(t) \/ DictValueStore(t) \/ DictReturn(t)

PlainNext == \E t \in Threads : PlainStep(t)

FairPlainSpec == PlainInit /\ [][PlainNext]_vars /\ WF_vars(PlainNext)

\* The references of the graph of x, the caller's reference to x included.
NumRefs(h, x) == 1 + Cardinality({q \in Reach(h, x) \X (1 .. 4) \X (1 .. MaxKids) :
    LET o == h[q[1]]
    IN CASE q[2] = 1 -> q[3] \in DOMAIN o.kids
         [] q[2] = 2 -> q[3] \in DOMAIN o.keys /\ o.keys[q[3]] # 0
         [] q[2] = 3 -> q[3] \in DOMAIN o.args
         [] OTHER -> q[3] = 1 /\ o.state # None})

\* How often the running (or last) top-level call of t invoked a strategy on a.
Invocations(t, a) == Cardinality({n \in DOMAIN invs[t] : invs[t][n] = a})

PlainKinds == {"atom", "list", "dict", "tuple"}

\* C3 as stated: on a graph of atomic values, lists, dicts and tuples a top-level
\* call never invokes more strategies than the graph has references.
C3_InvocationsBoundedByRefs ==
    KindsOf(heap, Root) \subseteq PlainKinds => Len(invs[1]) <= NumRefs(heap, Root)

\* C3, amended: on a graph of atomic values, lists, dicts and tuples a top-level
\* call invokes the list and the dict strategy at most once per list and dict, and
\* the call eventually returns.
C3_Terminates ==
    /\ [](KindsOf(heap, Root) \subseteq PlainKinds =>
            \A a \in SrcIds : heap[a].kind \in {"list", "dict"} => Invocations(1, a) <= 1)
    /\ (KindsOf(heap, Root) \subseteq PlainKinds =>
            <>(stack[1] = <<>> /\ Len(hist[1]) = 1 /\ DeepOk(hist[1][1])))

\* A call that returned after more strategy invocations than the graph has
\* references: a tuple on a cycle is copied once per path that reaches it.
C3_Witness ==
    /\ KindsOf(heap, Root) \subseteq PlainKinds
    /\ Len(hist[1]) = 1
    /\ DeepOk(hist[1][1])
    /\ OnCycle(heap, Root)
    /\ Len(invs[1]) > NumRefs(heap, Root)

\* No reference to a non-atomic object twice, none to x: the graph of x is a tree.
TreeLike(h, x) ==
    \A b \in Reach(h, x) :
        h[b].kind # "atom" =>
            Cardinality({q \in Reach(h, x) \X (1 .. 4) \X (1 .. MaxKids) :
                LET o == h[q[1]]
                IN CASE q[2] = 1 -> q[3] \in DOMAIN o.kids /\ o.kids[q[3]] = b
                     [] q[2] = 2 -> q[3] \in DOMAIN o.keys /\ o.keys[q[3]] = b
                     [] q[2] = 3 -> q[3] \in DOMAIN o.args /\ o.args[q[3]] = b
                     [] OTHER -> q[3] = 1 /\ o.state = b}) <= (IF b = x THEN 0 ELSE 1)

\* No list or dict of the graph of x is in the graph of y.
NoSharedMutable(h, x, y) ==
    \A a \in Reach(h, x) \cap Reach(h, y) : h[a].kind \notin {"list", "dict"}

Containers == {"list", "tuple", "dict", "fset"}

FairObjSpec == ObjSpec /\ WF_vars(ObjNext)

\* The references deepcopy follows before it has memoized a copy of the referrer:
\* the factory arguments of an instance, the elements of a tuple, and the elements
\* of a set or frozenset (the argument of its factory).
EagerRefs(h, a) ==
    CASE h[a].kind = "obj" -> Range(h[a].args) \ {0}
      [] h[a].kind \in {"tuple", "fset", "set"} -> Range(h[a].kids) \ {0}
      [] OTHER -> {}

RECURSIVE EagerReach(_, _, _)
EagerReach(h, seen, front) ==
    IF front = {} THEN seen
    ELSE LET nxt == UNION {EagerRefs(h, a) : a \in front} \ (seen \cup front)
         IN EagerReach(h, seen \cup front, nxt)

\* The graph of x holds a cycle that runs through such references alone.
ArgsCycle(h, x) ==
    \E a \in Reach(h, x) : \E b \in EagerRefs(h, a) : a \in EagerReach(h, {}, {b})

Copied(h, y) == IF y = None THEN {} ELSE {a \in Reach(h, y) : h[a].kind # "atom"}

\* C7 as stated: two successive top-level calls deepcopy(x) on the same non-atomic x
\* return two distinct objects.
C7_DistinctCopies ==
    \A t \in Threads : \A n, k \in Calls(t) :
        (/\ n < k
         /\ DeepOk(hist[t][n]) /\ DeepOk(hist[t][k])
         /\ hist[t][n].x = hist[t][k].x
         /\ heap[hist[t][n].x].kind # "atom")
        => hist[t][n].y # hist[t][k].y

\* C7, amended: a top-level call starts with an empty memo table and an empty
\* cache, whatever the earlier calls did; no object an earlier call made is in the
\* result of a later call; two calls on the same non-atomic x return two distinct
\* objects unless deepcopy returns x itself, as it does for a tuple it need not copy.
C7_FreshStart ==
    /\ \A t \in Threads :
          (At(t, "dc", "check") /\ Top(t).top) =>
              /\ last_id = None /\ last_obj = None
              /\ memo[t] = EmptyFn /\ keep[t] = <<>>
    /\ \A t \in Threads : \A n, k \in Calls(t) :
          (n < k /\ DeepOk(hist[t][k])) =>
              /\ Copied(heap, hist[t][k].y) \cap hist[t][n].made = {}
              /\ (/\ DeepOk(hist[t][n])
                  /\ hist[t][n].x = hist[t][k].x
                  /\ heap[hist[t][n].x].kind # "atom")
                 => \/ hist[t][n].y # hist[t][k].y
                    \/ /\ hist[t][k].y = hist[t][k].x
                       /\ heap[hist[t][k].x].kind = "tuple"

\* A call that failed after it had copied part of the graph, followed by a call
\* that returned a copy.
C7_Witness ==
    /\ Len(hist[1]) = 2
    /\ hist[1][1].op = "deepcopy"
    /\ hist[1][1].status = "Error"
    /\ hist[1][1].made # {}
    /\ DeepOk(hist[1][2])
    /\ hist[1][2].y \in hist[1][2].made

\* C8: once a top-level deepcopy call has returned, neither the memo table, nor the
\* keep-alive list, nor the cache refers to an object of the returned graph.
C8_NoResidualReference ==
    \A t \in Threads :
        (stack[t] = <<>> /\ hist[t] # <<>> /\ DeepOk(hist[t][Len(hist[t])])) =>
            /\ memo[t] = EmptyFn
            /\ keep[t] = <<>>
            /\ last_obj \notin Copied(heap, hist[t][Len(hist[t])].y)

ShallowOk(c) == c.op = "copy" /\ c.status = "ok"

\* C10 as stated: copy(x) of a list, a dict, a set or a tuple is a new container,
\* not x, of the same kind and with the very same children in the same order;
\* copy(x) of an atomic value is x.
C10_ShallowCopyIsNew ==
    \A t \in Threads : \A n \in Calls(t) :
        LET c == hist[t][n]
        IN ShallowOk(c) =>
              /\ heap[c.x].kind \in {"list", "dict", "set", "tuple"} =>
                    (c.y # c.x /\ c.y \in c.made /\ heap[c.y] = heap[c.x])
              /\ heap[c.x].kind = "atom" => c.y = c.x

\* C10, amended: copy(x) of a list, a dict or a set is a new container, not x, of
\* the same kind and with the very same children in the same order; copy(x) of a
\* tuple, a frozenset or an atomic value is x itself.
C10_ShallowCopy ==
    \A t \in Threads : \A n \in Calls(t) :
        LET c == hist[t][n]
        IN ShallowOk(c) =>
              /\ heap[c.x].kind \in {"list", "dict", "set"} =>
                    (c.y # c.x /\ c.y \in c.made /\ heap[c.y] = heap[c.x])
              /\ heap[c.x].kind \in {"tuple", "fset", "atom"} => c.y = c.x

\* A finished shallow copy of a list that holds a container.
C10_Witness ==
    \E n \in Calls(1) :
        /\ ShallowOk(hist[1][n])
        /\ heap[hist[1][n].x].kind = "list"
        /\ \E a \in Range(heap[hist[1][n].x].kids) : heap[a].kind # "atom"
        /\ heap[hist[1][n].y].kids = heap[hist[1][n].x].kids
        /\ hist[1][n].y # hist[1][n].x

\* Both callers of ConcSpec have their result.
BothDone == \A t \in Threads : stack[t] = <<>> /\ Len(hist[t]) = 1 /\ DeepOk(hist[t][1])

\* y is what deepcopy(x) returns to a caller that runs alone: a graph of objects the
\* call made itself, in one-to-one correspondence with the graph of x.
CopyOf(h, c) ==
    /\ c.y # None
    /\ Copied(h, c.y) \subseteq c.made
    /\ Functional(Corr(h, c.x, c.y))
    /\ OneToOne(Corr(h, c.x, c.y))
    /\ EqualDeep(h, c.x, c.y)

\* C5: two deepcopy calls that run at the same time on graphs with no object in
\* common each return what they return when run alone, and no object made for one
\* is in the result of the other.
C5_IndependentCalls ==
    (BothDone /\ Reach(heap, hist[1][1].x) \cap Reach(heap, hist[2][1].x) = {}) =>
        /\ CopyOf(heap, hist[1][1])
        /\ CopyOf(heap, hist[2][1])
        /\ Copied(heap, hist[1][1].y) \cap hist[2][1].made = {}
        /\ Copied(heap, hist[2][1].y) \cap hist[1][1].made = {}

\* C6: two callers that deep-copy the same graph at the same time get results that
\* have no copied object in common.
C6_IndependentCopies ==
    (BothDone /\ hist[1][1].x = hist[2][1].x) =>
        /\ hist[1][1].y # hist[2][1].y
        /\ Copied(heap, hist[1][1].y) \cap Copied(heap, hist[2][1].y) = {}

\* C11 as stated: the deep copy of a tuple of atomic values is the tuple itself and
\* nothing is allocated; the deep copy of a tuple with a list, a dict, a set or
\* another tuple among its elements is a new tuple.
C11_TupleNewIfContainer ==
    \A t \in Threads : \A n \in Calls(t) :
        LET c == hist[t][n]
        IN (DeepOk(c) /\ heap[c.x].kind = "tuple") =>
              /\ (\A a \in Range(heap[c.x].kids) : heap[a].kind = "atom") =>
                    (c.y = c.x /\ c.made = {})
              /\ (\E a \in Range(heap[c.x].kids) : heap[a].kind \in {"list", "dict", "set", "tuple"}) =>
                    (c.y # c.x /\ c.y \in c.made)

\* C11, amended: the deep copy of a tuple of atomic values is the tuple itself and
\* nothing is allocated; the deep copy of a tuple is the tuple itself exactly when
\* the tuple holds, at every depth, tuples and atomic values only, and a new tuple
\* when a list, a dict, a set or a frozenset is among its elements.
C11_TupleNewIfElementCopied ==
    \A t \in Threads : \A n \in Calls(t) :
        LET c == hist[t][n]
        IN (DeepOk(c) /\ heap[c.x].kind = "tuple") =>
              /\ (\A a \in Range(heap[c.x].kids) : heap[a].kind = "atom") =>
                    (c.y = c.x /\ c.made = {})
              /\ (\E a \in Range(heap[c.x].kids) : heap[a].kind \in {"list", "dict", "set", "fset"}) =>
                    (c.y # c.x /\ c.y \in c.made /\ heap[c.y].kind = "tuple")
              /\ (c.y = c.x) = (KindsOf(heap, c.x) \subseteq {"tuple", "atom"})

\* A finished deep copy of a tuple that holds a set: a new tuple.
C11_Witness ==
    /\ hist[1] # <<>>
    /\ DeepOk(hist[1][1])
    /\ heap[Root].kind = "tuple"
    /\ \E a \in Range(heap[Root].kids) : heap[a].kind = "set"
    /\ hist[1][1].y \in hist[1][1].made
    /\ heap[hist[1][1].y].kind = "tuple"

\* C12: copy(x) and deepcopy(x) of a value without any strategy raise Error, the
\* message names the type of that value, the caller gets no value, and no memo
\* table ever holds an entry for such a value.
C12_UncopyableRaises ==
    /\ \A t \in Threads : \A n \in Calls(t) :
          LET c == hist[t][n]
          IN /\ heap[c.x].kind = "bad" => c.status = "Error"
             /\ c.status = "Error" => (c.y = None /\ c.cls = "bad")
    /\ \A t \in Threads : \A a \in DOMAIN memo[t] : heap[a].kind # "bad"

\* A deepcopy and then a copy of a value without any strategy, both failed.
C12_Witness ==
    /\ Len(hist[1]) = 2
    /\ heap[Root].kind = "bad"
    /\ hist[1][1].op = "deepcopy" /\ hist[1][1].status = "Error"
    /\ hist[1][2].op = "copy" /\ hist[1][2].status = "Error"
    /\ hist[1][2].x = Root

\* C13: the step after a strategy has produced y for v registers memo[id(v)] = y and
\* appends v to the keep-alive list if y is not v, and leaves both alone if y is v;
\* the deep copy of an atomic value is the value itself, and neither the memo table
\* nor the keep-alive list ever holds an atomic value.
C13_MemoizeIffNotSelf ==
    /\ [](/\ \A t \in Threads : \A a \in DOMAIN memo[t] \cup Range(keep[t]) : heap[a].kind # "atom"
          /\ \A t \in Threads : \A n \in Calls(t) :
                (DeepOk(hist[t][n]) /\ heap[hist[t][n].x].kind = "atom") => hist[t][n].y = hist[t][n].x)
    /\ [][\A t \in Threads :
            (At(t, "dc", "memoize") /\ stack'[t] # stack[t]) =>
                IF Top(t).y # Top(t).x
                THEN /\ Top(t).x \in DOMAIN memo'[t]
                     /\ memo'[t][Top(t).x] = Top(t).y
                     /\ keep'[t] = Append(keep[t], Top(t).x)
                ELSE memo'[t] = memo[t] /\ keep'[t] = keep[t]]_vars

\* An atomic value has just been copied inside a call that has memoized a container:
\* the memo table has entries, none for the atomic value.
C13_Witness ==
    /\ At(1, "dc", "set_id")
    /\ heap[Top(1).x].kind = "atom"
    /\ Top(1).y = Top(1).x
    /\ memo[1] # EmptyFn
    /\ Top(1).x \notin DOMAIN memo[1]

\* ------------------------------------------------- the resolution of a strategy
\* The types the two copiers may meet: registered in a table or not, a class or an
\* instance, with or without an override, with or without the reduction protocol.
\* An override returns the list 2 or its own argument.
TypeFeatures ==
    [dtable : {"", "atom"}, ctable : {"", "immutable"}, istype : BOOLEAN,
     dhook : {None, 2, Root}, chook : {None, 2, Root}, proto : BOOLEAN,
     fails : {""}]

\* The graph [v, v, [1], v] around a value v of any of these types; the caller copies
\* the value and the list, deeply and shallowly.
DispatchInit ==
    /\ \E f \in TypeFeatures :
          heap = Graph(Obj("list", <<1>>, <<>>, <<>>, None),
                       Obj("list", <<Root, Root, 2, Root>>, <<>>, <<>>, None),
                       [Obj("obj", <<>>, <<>>, <<>>, None) EXCEPT !.ty = f])
    /\ \E q \in [1 .. MaxCalls -> {ToDo(op, x) : op \in {"deepcopy", "copy"}, x \in {3, Root}}] :
          todo = [t \in Threads |-> IF t = 1 THEN q ELSE <<>>]
    /\ InitEngine

DispatchStep(t) ==
    \/ Call(t) \/ ResetLastId(t) \/ ResetLastObj(t) \/ CheckLast(t) \/ FastReturn(t)
    \/ HitSetLastId(t) \/ HitReturn(t) \/ CopyAtomic(t)
    \/ Memoize(t) \/ SetLastId(t) \/ SetLastObjReturn(t)
    \/ CallList(t) \/ ListCall(t) \/ ListStore(t) \/ ListReturn(t)
    \/ CallReconstruct(t) \/ ReconConstruct(t) \/ ReconReturn(t)
    \/ CallHook(t) \/ RaiseUncopyable(t) \/ ShallowCopy(t)

DispatchNext == \E t \in Threads : DispatchStep(t)

DispatchSpec == DispatchInit /\ [][DispatchNext]_vars

\* The frame of thread t after the step, when the step kept the call on the stack.
TopAfter(t) == stack'[t][Len(stack'[t])]

\* C14: copy and deepcopy resolve the strategy in one order, the first that applies
\* winning: the table entry of the exact type, then the test that the value is itself
\* a class (atomic), then the override the type declares, then the reduction
\* protocol, then failure.  A finished copy(x) returned x for a table-immutable type
\* or a class, else the override's result, else a new object, else raised Error; a
\* deepcopy at its dispatch takes x for its own copy for a table-atomic type or a
\* class, else takes the override's result, else enters _reconstruct, else raises.
C14_ResolutionOrder ==
    /\ [](\A t \in Threads : \A n \in Calls(t) :
            LET c == hist[t][n]
                ty == heap[c.x].ty
            IN c.op = "copy" =>
                 IF ty.ctable = "immutable" THEN c.y = c.x /\ c.made = {}
                 ELSE IF ty.ctable = "copy" THEN c.y \in c.made
                 ELSE IF ty.istype THEN c.y = c.x /\ c.made = {}
                 ELSE IF ty.chook # None THEN c.y = ty.chook /\ c.made = {}
                 ELSE IF ty.proto THEN c.y \in c.made
                 ELSE c.status = "Error")
    /\ [][\A t \in Threads :
            (At(t, "dc", "dispatch") /\ stack'[t] # stack[t]) =>
                LET x == Top(t).x
                    ty == heap[x].ty
                    same == Len(stack'[t]) = Len(stack[t])
                    entered(fn) == /\ Len(stack'[t]) = Len(stack[t]) + 1
                                   /\ TopAfter(t).fn = fn
                                   /\ TopAfter(t).x = x
                IN IF ty.dtable = "atom" THEN same /\ TopAfter(t).pc = "memoize" /\ TopAfter(t).y = x
                   ELSE IF ty.dtable # "" THEN entered(ty.dtable)
                   ELSE IF ty.istype THEN same /\ TopAfter(t).pc = "memoize" /\ TopAfter(t).y = x
                   ELSE IF ty.dhook # None
                        THEN same /\ TopAfter(t).pc = "memoize" /\ TopAfter(t).y = ty.dhook
                   ELSE IF ty.proto THEN entered("recon")
                   ELSE stack'[t] = <<>> /\ hist'[t][Len(hist'[t])].status = "Error"]_vars

\* A class that declares both overrides was copied both ways and came back itself.
C14_Witness ==
    /\ heap[Root].ty.dtable = "" /\ heap[Root].ty.ctable = ""
    /\ heap[Root].ty.istype
    /\ heap[Root].ty.dhook = 2 /\ heap[Root].ty.chook = 2
    /\ Len(hist[1]) = 2
    /\ hist[1][1] = Done("deepcopy", Root, Root, "ok", {})
    /\ hist[1][2] = Done("copy", Root, Root, "ok", {})

\* How a finished deepcopy c treated the source list or dict a: one counterpart in
\* the result, a new object of a's kind.
CopiedOnce(c, a) ==
    LET R == Corr(heap, c.x, c.y)
    IN /\ Cardinality({p \in R : p[1] = a}) = 1
       /\ \A p \in R : p[1] = a => /\ p[2] # a
                                   /\ p[2] \in c.made
                                   /\ heap[p[2]].kind = heap[a].kind

\* a is the attribute dictionary (__dict__) of an instance.
IsInstanceDict(h, a) == \E o \in DOMAIN h : h[o].kind = "obj" /\ h[o].state = a

C16_RegisteredBeforeChildren ==
    /\ [](\A t \in Threads : \A k \in DOMAIN stack[t] :
            LET f == stack[t][k]
            IN f.fn \in {"list", "dict"} =>
                 /\ f.x \in DOMAIN memo[t]
                 /\ memo[t][f.x] = f.y
                 /\ \A j \in (k + 1) .. Len(stack[t]) :
                       LET g == stack[t][j]
                       IN (g.fn = "dc" /\ g.x = f.x) =>
                            /\ g.pc \in {"check", "fast", "hit_id", "hit_obj"}
                            /\ g.pc = "fast" => last_obj = f.y
                            /\ g.pc \in {"hit_id", "hit_obj"} => g.y = f.y)
    /\ [][\A t \in Threads :
            (/\ Len(stack'[t]) = Len(stack[t]) + 1
             /\ TopAfter(t).fn \in {"list", "dict"}) =>
                /\ TopAfter(t).i = 1
                /\ TopAfter(t).y \notin DOMAIN heap
                /\ TopAfter(t).x \in DOMAIN memo'[t]
                /\ memo'[t][TopAfter(t).x] = TopAfter(t).y]_vars

\* A list or dict that holds itself met itself while being filled, and the call is
\* about to return the destination.
C16_Witness ==
    \E k, j \in DOMAIN stack[1] :
        /\ k < j
        /\ stack[1][k].fn \in {"list", "dict"}
        /\ stack[1][j].fn = "dc"
        /\ stack[1][j].x = stack[1][k].x
        /\ stack[1][j].pc = "hit_obj"
        /\ stack[1][j].y = stack[1][k].y

\* The step of thread t constructs the copy object of the source x: the list or
\* dict routine creates its destination, the tuple routine builds the new tuple,
\* _reconstruct calls the factory.
Constructs(t, x) ==
    /\ stack[t] # <<>>
    /\ Top(t).x = x
    /\ made'[t] # made[t]
    /\ \/ At(t, "dc", "dispatch") /\ DeepStrategy(heap[x].ty) \in {"list", "dict"}
       \/ At(t, "tuple", "iter")
       \/ At(t, "recon", "iter") /\ Top(t).ph = "args"

\* A copy object is constructed only for a source that has none yet.
OneCopyPerSource(t) == \A x \in DOMAIN heap : Constructs(t, x) => x \notin DOMAIN memo[t]

\* A call on a source that the memo holds returns the memo's entry, from the memo or
\* from the cache, and does not reach the dispatch.
MemoServes(t) ==
    (At(t, "dc", "check") /\ Top(t).x \in DOMAIN memo[t] /\ stack'[t] # stack[t]) =>
        \/ stack'[t] = <<>>
        \/ TopAfter(t).pc = "hit_id" /\ TopAfter(t).y = memo[t][Top(t).x]
        \/ TopAfter(t).pc = "fast" /\ last_obj = memo[t][Top(t).x]

\* An entry of the memo keeps its value as long as the memo lives.
NeverRebound(t) ==
    \A d \in DOMAIN memo[t] : d \in DOMAIN memo'[t] => memo'[t][d] = memo[t][d]

FactoryArgs(h, a) ==
    CASE h[a].kind = "obj" -> Range(h[a].args) \ {0}
      [] h[a].kind \in {"set", "fset"} -> Range(h[a].kids) \ {0}
      [] OTHER -> {}

\* a is reachable from its own factory arguments.
SelfArg(h, a) == \E b \in FactoryArgs(h, a) : a \in Reach(h, b)

\* A constructed copy is registered: by the list and dict routines and by
\* _reconstruct in the step that constructs it, by deepcopy when a strategy returns
\* another object than its argument.
Registers(t) ==
    /\ \A x \in DOMAIN heap :
          (Constructs(t, x) /\ ~At(t, "tuple", "iter")) =>
              /\ x \in DOMAIN memo'[t]
              /\ memo'[t][x] \in made'[t] \ made[t]
    /\ (At(t, "dc", "memoize") /\ stack'[t] # stack[t] /\ Top(t).y # Top(t).x) =>
          /\ Top(t).x \in DOMAIN memo'[t]
          /\ memo'[t][Top(t).x] = Top(t).y

C18_ShortcutOnlyForNonContainers ==
    [][\A t \in Threads :
          (/\ At(t, "dict", "iter")
           /\ Len(stack'[t]) = Len(stack[t])
           /\ stack'[t] # stack[t]) =>
              LET x == Top(t).x
                  v == IF Top(t).ph = "key" THEN heap[x].keys[Top(t).i]
                       ELSE heap[x].kids[Top(t).i]
              IN IF v = 0 THEN TRUE ELSE heap[v].kind = "atom"]_vars

\* ------------------------------------------------ the engine without the cache
\* deepcopy with the statements that read or write deepcopy._last_id and
\* deepcopy._last_obj removed: a top-level call starts with an empty memo, a call
\* looks its argument up in the memo, and a result is registered and returned.
\* The caller runs it after the call of the engine under study has ended.
RefCall(t) ==
    /\ stack[t] = <<>>
    /\ todo[t] # <<>>
    /\ Head(todo[t]).op = "deepcopy"
    /\ \A u \in Threads \ {t} : stack[u] = <<>> /\ todo[u] = <<>>
    /\ stack' = [stack EXCEPT ![t] = <<[Frame("dc", Head(todo[t]).x, "check") EXCEPT !.top = TRUE]>>]
    /\ todo' = [todo EXCEPT ![t] = Tail(@)]
    /\ memo' = [memo EXCEPT ![t] = EmptyFn]
    /\ keep' = [keep EXCEPT ![t] = <<>>]
    /\ made' = [made EXCEPT ![t] = {}]
    /\ invs' = [invs EXCEPT ![t] = <<>>]
    /\ UNCHANGED <<heap, last_id, last_obj, hist, nalloc>>

\* d = id(x); y = memo.get(d, _nil); if y is not _nil: ... return y
RefCheck(t) ==
    /\ At(t, "dc", "check")
    /\ Len(stack[t]) <= MaxDepth
    /\ stack' = SetTop(t,
          IF Top(t).x \in DOMAIN memo[t]
          THEN [Top(t) EXCEPT !.y = memo[t][Top(t).x], !.pc = "ret"]
          ELSE [Top(t) EXCEPT !.pc = "dispatch"])
    /\ UNCHANGED <<heap, last_id, last_obj, memo, keep, hist, made, invs, nalloc, todo>>

\* if y is not x: memo[d] = y; _keep_alive(x, memo)
RefMemoize(t) ==
    /\ At(t, "dc", "memoize")
    /\ IF Top(t).y # Top(t).x
       THEN /\ memo' = [memo EXCEPT ![t] = Upd(@, Top(t).x, Top(t).y)]
            /\ keep' = [keep EXCEPT ![t] = Append(@, Top(t).x)]
       ELSE UNCHANGED <<memo, keep>>
    /\ stack' = SetTop(t, [Top(t) EXCEPT !.pc = "ret"])
    /\ UNCHANGED <<heap, last_id, last_obj, hist, made, invs, nalloc, todo>>

\* return y
RefReturn(t) ==
    /\ At(t, "dc", "ret")
    /\ Return(t, Top(t).y)
    /\ UNCHANGED <<heap, last_id, last_obj, made, invs, nalloc, todo>>

\* Thread 1 runs deepcopy as it is, thread 2 the engine without the cache.
Cached == 1
Reference == 2

\* Both engines copy the root of one source graph, one after the other.
EquivInit ==
    /\ IsSrcGraph(AllShapes, MaxObjRefs, heap)
    /\ todo = [t \in Threads |-> <<ToDo("deepcopy", Root)>>]
    /\ InitEngine

StrategyStep(t) ==
    \/ CopyAtomic(t)
    \/ CallList(t) \/ ListCall(t) \/ ListStore(t) \/ ListReturn(t)
    \/ CallTuple(t) \/ TupleCall(t) \/ TupleStore(t) \/ TupleReturn(t)
    \/ CallDict(t) \/ DictKeyReuse(t) \/ DictKeyCall(t) \/ DictKeyStore(t)
    \/ DictValueReuse(t) \/ DictValueCall(t) \/ DictValueStore(t) \/ DictReturn(t)
    \/ CallReconstruct(t) \/ ReconArgCall(t) \/ ReconArgStore(t) \/ ReconConstruct(t)
    \/ ReconStateCall(t) \/ ReconStateApply(t)
    \/ ReconListCall(t) \/ ReconListStore(t) \/ ReconListEnd(t)
    \/ ReconDictKeyCall(t) \/ ReconDictKeyStore(t) \/ ReconDictValueCall(t)
    \/ ReconDictValueStore(t) \/ ReconDictUpdate(t)
    \/ ReconReturn(t)
    \/ RaiseUncopyable(t) \/ RaiseRecursionError(t)

EquivNext ==
    \/ Call(Cached) \/ ResetLastId(Cached) \/ ResetLastObj(Cached)
    \/ CheckLast(Cached) \/ FastReturn(Cached)
    \/ HitSetLastId(Cached) \/ HitReturn(Cached)
    \/ Memoize(Cached) \/ SetLastId(Cached) \/ SetLastObjReturn(Cached)
    \/ RefCall(Reference) \/ RefCheck(Reference) \/ RefMemoize(Reference) \/ RefReturn(Reference)
    \/ \E t \in Threads : StrategyStep(t)

EquivSpec == EquivInit /\ [][EquivNext]_vars

\* b is built like a: of the same kind and arity, and the very object a when a is a
\* source object.
Alike(h, a, b) ==
    /\ h[b].kind = h[a].kind
    /\ Len(h[b].kids) = Len(h[a].kids)
    /\ Len(h[b].keys) = Len(h[a].keys)
    /\ Len(h[b].args) = Len(h[a].args)
    /\ (h[b].state = None) = (h[a].state = None)
    /\ \A n \in DOMAIN h[a].keys : (h[b].keys[n] = 0) = (h[a].keys[n] = 0)
    /\ (a \in SrcIds \/ b \in SrcIds) => b = a

\* The graphs of y and z have the same shape and the same aliasing: position by
\* position the objects are alike, and two positions hold one object in one graph
\* exactly when they do in the other.
Isomorphic(h, y, z) ==
    LET R == Corr(h, y, z)
    IN /\ \A p \in R : p[2] # 0 /\ Alike(h, p[1], p[2])
       /\ Functional(R)
       /\ OneToOne(R)

\* C19: for one caller the cache cannot be observed.  For every source graph the
\* engine with the cache ends as the engine without it, with a result of the same
\* shape and aliasing; whenever the cache hits for d its object is memo[d], or d
\* itself when d is its own copy and has no entry; and every return of deepcopy(v)
\* leaves (id(v), the returned value) in the cache.
C19_CacheInvisible ==
    /\ []((hist[Cached] # <<>> /\ hist[Reference] # <<>>) =>
            LET c == hist[Cached][1]
                r == hist[Reference][1]
            IN /\ c.status = r.status
               /\ c.status = "ok" => Isomorphic(heap, c.y, r.y))
    /\ [](At(Cached, "dc", "fast") =>
            last_obj = IF Top(Cached).x \in DOMAIN memo[Cached]
                       THEN memo[Cached][Top(Cached).x] ELSE Top(Cached).x)
    /\ [][(/\ stack[Cached] # <<>>
           /\ Top(Cached).fn = "dc"
           /\ Len(stack'[Cached]) < Len(stack[Cached])
           /\ Top(Cached).pc # "dispatch"
           /\ Top(Cached).pc # "check") =>
              /\ last_id' = Top(Cached).x
              /\ last_obj' = IF stack'[Cached] = <<>>
                             THEN hist'[Cached][Len(hist'[Cached])].y
                             ELSE stack'[Cached][Len(stack'[Cached])].r]_vars

\* Both engines have copied a graph in which the cache hit at least once: an object
\* that the root holds twice in a row.
C19_Witness ==
    /\ hist[Cached] # <<>> /\ hist[Reference] # <<>>
    /\ hist[Cached][1].status = "ok"
    /\ heap[Root].kind = "list"
    /\ Len(heap[Root].kids) = 2
    /\ heap[Root].kids[1] = heap[Root].kids[2]
    /\ heap[heap[Root].kids[1]].kind \in {"list", "dict", "obj", "fset"}
    /\ hist[Cached][1].y # hist[Reference][1].y

\* ------------------------------------------------- the order of _reconstruct
\* An instance (the root) with any combination of factory arguments, state and
\* items; 2 is a list and 3 is the instance's __dict__, and each of them may hold
\* the instance.
ReconInit ==
    /\ \E args \in {<<>>, <<1>>, <<2>>} :
       \E state \in {None, 3} :
       \E items \in {<<>>, <<1>>, <<2>>, <<Root>>} :
       \E keys \in {<<>>, <<1>>} :
       \E l \in {<<>>, <<1>>, <<Root>>} :
       \E v \in {1, 2, Root} :
          /\ Len(keys) <= Len(items)
          /\ heap = Graph(Obj("list", l, <<>>, <<>>, None),
                          Obj("dict", <<v>>, <<0>>, <<>>, None),
                          Obj("obj", items, keys, args, state))
          /\ WellFormed(heap)
    /\ todo = [t \in Threads |-> IF t = 1 THEN <<ToDo("deepcopy", Root)>> ELSE <<>>]
    /\ InitEngine

ReconStep(t) ==
    \/ Call(t) \/ ResetLastId(t) \/ ResetLastObj(t) \/ CheckLast(t) \/ FastReturn(t)
    \/ HitSetLastId(t) \/ HitReturn(t) \/ CopyAtomic(t)
    \/ Memoize(t) \/ SetLastId(t) \/ SetLastObjReturn(t)
    \/ CallList(t) \/ ListCall(t) \/ ListStore(t) \/ ListReturn(t)
    \/ CallDict(t) \/ DictKeyReuse(t) \/ DictValueReuse(t) \/ DictValueCall(t)
    \/ DictValueStore(t) \/ DictReturn(t)
    \/ CallReconstruct(t) \/ ReconArgCall(t) \/ ReconArgStore(t) \/ ReconConstruct(t)
    \/ ReconStateCall(t) \/ ReconStateApply(t)
    \/ ReconListCall(t) \/ ReconListStore(t) \/ ReconListEnd(t)
    \/ ReconDictKeyCall(t) \/ ReconDictKeyStore(t) \/ ReconDictValueCall(t)
    \/ ReconDictValueStore(t) \/ ReconDictUpdate(t)
    \/ ReconReturn(t)

ReconNext == \E t \in Threads : ReconStep(t)

ReconSpec == ReconInit /\ [][ReconNext]_vars

\* The place of a phase of _reconstruct in the order the claim gives.
PhaseRank(ph) ==
    CASE ph = "args" -> 1
      [] ph = "state" -> 2
      [] ph = "list" -> 3
      [] ph \in {"dkey", "dval"} -> 4
      [] OTHER -> 5

\* What a running _reconstruct (frame f of thread t) has done in each phase: while
\* the arguments are copied there is no new instance; from then on the instance
\* exists with the copied arguments and is registered under the source's identity;
\* while the state is copied, no state is applied and no item added; while items
\* are copied, the state is applied.
PhaseOrder(t, f) ==
    f.fn = "recon" =>
        /\ f.ph = "args" => f.y = None
        /\ f.ph # "args" =>
              /\ f.y # None
              /\ f.x \in DOMAIN memo[t]
              /\ memo[t][f.x] = f.y
              /\ Len(heap[f.y].args) = Len(heap[f.x].args)
        /\ f.ph = "state" =>
              /\ heap[f.y].state = None
              /\ heap[f.y].kids = <<>>
              /\ heap[f.y].keys = <<>>
        /\ (f.ph \in {"list", "dkey", "dval", "done"} /\ HasState(heap, f.x)) =>
              heap[f.y].state # None
        /\ (f.ph = "list" /\ f.i = 1) => heap[f.y].kids = <<>>
        /\ f.ph \in {"dkey", "dval"} => heap[f.y].keys = <<>>

\* A running _reconstruct never goes back to an earlier phase.
PhasesAdvance(t) ==
    \A k \in DOMAIN stack[t] \cap DOMAIN stack'[t] :
        (stack[t][k].fn = "recon" /\ stack'[t][k].fn = "recon") =>
            PhaseRank(stack'[t][k].ph) >= PhaseRank(stack[t][k].ph)

\* In the finished copy c of an instance, the positions of its state that held the
\* instance hold the result.
StateResolves(c) ==
    (heap[c.x].kind = "obj" /\ heap[c.x].state # None) =>
        /\ heap[c.y].state # None
        /\ \A n \in DOMAIN heap[heap[c.x].state].kids :
              heap[heap[c.x].state].kids[n] = c.x =>
                  /\ n \in DOMAIN heap[heap[c.y].state].kids
                  /\ heap[heap[c.y].state].kids[n] = c.y

TuplesIn(h, S) == {a \in S : h[a].kind = "tuple"}

\* C21: _deepcopy_tuple copies every element and only then looks into the memo: the
\* step that ends the routine has all the elements copied, and when the memo holds
\* the tuple by then it returns the memoized tuple and builds nothing.  A finished
\* deep copy has built no more tuples than the source graph holds, and a source
\* tuple on a cycle has exactly one counterpart, a new tuple.
C21_TupleMemoAfterElements ==
    /\ [][\A t \in Threads :
            (At(t, "tuple", "iter") /\ Len(stack'[t]) < Len(stack[t]) /\ stack'[t] # <<>>) =>
                /\ Len(Top(t).acc) = Len(heap[Top(t).x].kids)
                /\ Top(t).x \in DOMAIN memo[t] =>
                      /\ TopAfter(t).y = memo[t][Top(t).x]
                      /\ heap' = heap
                      /\ made' = made]_vars
    /\ [](\A t \in Threads : \A n \in Calls(t) :
            LET c == hist[t][n]
                R == Corr(heap, c.x, c.y)
            IN DeepOk(c) =>
                 /\ Cardinality(TuplesIn(heap, c.made))
                       <= Cardinality(TuplesIn(heap, Reach(heap, c.x)))
                 /\ \A a \in TuplesIn(heap, Reach(heap, c.x)) :
                       OnCycle(heap, a) =>
                          /\ Cardinality({p \in R : p[1] = a}) = 1
                          /\ \A p \in R : p[1] = a =>
                                p[2] \in TuplesIn(heap, c.made))

\* A finished deep copy of a list that holds a tuple that holds the list: the copied
\* list refers to the one new tuple, which refers to the copied list.
C21_Witness ==
    /\ hist[1] # <<>>
    /\ DeepOk(hist[1][1])
    /\ heap[Root].kind = "list"
    /\ \E n \in DOMAIN heap[Root].kids :
          LET a == heap[Root].kids[n]
              y == hist[1][1].y
          IN /\ heap[a].kind = "tuple"
             /\ Root \in Range(heap[a].kids)
             /\ heap[y].kids[n] \in TuplesIn(heap, hist[1][1].made)
             /\ y \in Range(heap[heap[y].kids[n]].kids)
             /\ Cardinality(TuplesIn(heap, hist[1][1].made)) = 1

\* ------------------------------------------------- failures of the type's own code
\* A list, tuple or dict over the dict 2 = {"k": 1} and a value 3 whose type may
\* lack any strategy, or declare an override, a factory or a __setstate__ that
\* raises; the value is reduced to the arguments args and the state state.
FailInit ==
    /\ \E kind \in {"list", "tuple", "dict"} :
       \E kids \in {<<3, 2>>, <<2, 3>>, <<2, 3, 2>>} :
       \E f \in {"", "override", "factory", "setstate"} :
       \E proto \in BOOLEAN :
       \E dhook \in {None, 2} :
       \E args \in {<<>>, <<2>>} :
       \E state \in {None, 2} :
          heap = Graph(Obj("dict", <<1>>, <<0>>, <<>>, None),
                       [Obj("obj", <<>>, <<>>, args, state) EXCEPT
                            !.ty = [@ EXCEPT !.proto = proto, !.dhook = dhook, !.fails = f]],
                       Obj(kind, kids, IF kind = "dict" THEN [n \in DOMAIN kids |-> 0] ELSE <<>>,
                           <<>>, None))
    /\ todo = [t \in Threads |-> IF t = 1 THEN <<ToDo("deepcopy", Root)>> ELSE <<>>]
    /\ InitEngine

FailStep(t) ==
    \/ Call(t) \/ ResetLastId(t) \/ ResetLastObj(t) \/ CheckLast(t) \/ FastReturn(t)
    \/ HitSetLastId(t) \/ HitReturn(t)
    \/ Memoize(t) \/ SetLastId(t) \/ SetLastObjReturn(t)
    \/ CallList(t) \/ ListCall(t) \/ ListStore(t) \/ ListReturn(t)
    \/ CallTuple(t) \/ TupleCall(t) \/ TupleStore(t) \/ TupleReturn(t)
    \/ CallDict(t) \/ DictKeyReuse(t) \/ DictValueReuse(t) \/ DictValueCall(t)
    \/ DictValueStore(t) \/ DictReturn(t)
    \/ CallReconstruct(t) \/ ReconArgCall(t) \/ ReconArgStore(t) \/ ReconConstruct(t)
    \/ ReconStateCall(t) \/ ReconStateApply(t) \/ ReconReturn(t)
    \/ CallHook(t)
    \/ RaiseUncopyable(t) \/ RaiseOverride(t) \/ RaiseFactory(t) \/ RaiseSetstate(t)

FailNext == \E t \in Threads : FailStep(t)

FailSpec == FailInit /\ [][FailNext]_vars

\* The error the step of thread t raises when its top frame stands at a statement
\* that raises, "" elsewhere: the engine's Error for a type without any strategy, the
\* KeyError of an override, a factory or a __setstate__ that raises.
ErrorAt(t) ==
    IF stack[t] = <<>> THEN ""
    ELSE LET f == Top(t)
             ty == heap[f.x].ty
         IN IF f.fn = "dc" /\ f.pc = "dispatch" /\ DeepStrategy(ty) = "fail" THEN "Error"
            ELSE IF f.fn = "dc" /\ f.pc = "dispatch" /\ DeepStrategy(ty) = "hook"
                    /\ ty.fails = "override" THEN "KeyError"
            ELSE IF f.fn = "recon" /\ f.pc = "iter" /\ f.ph = "args"
                    /\ f.i > Len(f.rargs) /\ ty.fails = "factory" THEN "KeyError"
            ELSE IF f.fn = "recon" /\ f.pc = "got" /\ f.ph = "state"
                    /\ ty.fails = "setstate" THEN "KeyError"
            ELSE ""

\* A deep copy that reaches the value a meets a statement that raises.
MustFail(h, a) ==
    LET ty == h[a].ty
        how == DeepStrategy(ty)
    IN \/ how = "fail"
       \/ how = "hook" /\ ty.fails = "override"
       \/ how = "reduce" /\ ty.fails = "factory"
       \/ how = "reduce" /\ ty.fails = "setstate" /\ h[a].state # None

\* C22: when a step of a deep copy raises, the top-level call ends at that step with
\* that very error and without a value: every enclosing call is left, no object is
\* built or changed and no strategy is invoked any more.  A finished call returned a
\* value exactly when no value it reached had to raise.
C22_FailurePropagates ==
    /\ [][\A t \in Threads :
            (ErrorAt(t) # "" /\ stack'[t] # stack[t]) =>
                /\ stack'[t] = <<>>
                /\ Len(hist'[t]) = Len(hist[t]) + 1
                /\ LET c == hist'[t][Len(hist'[t])]
                   IN /\ c.op = "deepcopy"
                      /\ c.x = stack[t][1].x
                      /\ c.status = ErrorAt(t)
                      /\ c.y = None
                /\ heap' = heap
                /\ made' = made
                /\ invs' = invs]_vars
    /\ [](\A t \in Threads : \A n \in Calls(t) :
            LET c == hist[t][n]
            IN c.op = "deepcopy" =>
                 /\ DeepOk(c) <=> ~ \E a \in Reach(heap, c.x) : MustFail(heap, a)
                 /\ ~ DeepOk(c) => c.y = None /\ c.status \in {"Error", "KeyError"})

\* The factory of a value raises inside a container, after a sibling and an argument
\* were copied and before another sibling: the call ended with KeyError, having
\* built the copies made so far and nothing for the value.
C22_Witness ==
    /\ hist[1] # <<>>
    /\ hist[1][1].status = "KeyError"
    /\ heap[3].ty.fails = "factory"
    /\ heap[3].args = <<2>>
    /\ heap[Root].kids = <<2, 3, 2>>
    /\ hist[1][1].made # {}
    /\ stack[1] = <<>>

\* The number of calls thread t has finished grows by a call of copy in this step.
CopyFinishes(t) ==
    /\ Len(hist'[t]) = Len(hist[t]) + 1
    /\ hist'[t][Len(hist'[t])].op = "copy"

\* C23: a call of copy is over in one step of the caller that pushes no deepcopy
\* frame and leaves the memo tables, the keep-alive lists and the one-entry cache as
\* they were, whatever deep copies are in flight.  When copy falls back to
\* _reconstruct, the new instance holds the very arguments, items and keys of the
\* source, and its __dict__ is a new dict holding the very fields of the source's.
C23_ShallowCopyShares ==
    /\ [][\A t \in Threads :
            CopyFinishes(t) =>
                /\ stack' = stack
                /\ memo' = memo
                /\ keep' = keep
                /\ last_id' = last_id
                /\ last_obj' = last_obj
                /\ invs' = invs
                /\ \A a \in DOMAIN heap : heap'[a] = heap[a]]_vars
    /\ [](\A t \in Threads : \A n \in Calls(t) :
            LET c == hist[t][n]
                x == heap[c.x]
            IN (ShallowOk(c) /\ ShallowStrategy(x.ty) = "reduce") =>
                 /\ c.y \in c.made
                 /\ heap[c.y].kind = x.kind
                 /\ heap[c.y].args = x.args
                 /\ heap[c.y].kids = x.kids
                 /\ heap[c.y].keys = x.keys
                 /\ IF x.state = None THEN heap[c.y].state = None
                    ELSE /\ heap[c.y].state \in c.made
                         /\ heap[heap[c.y].state].kids = heap[x.state].kids
                         /\ heap[heap[c.y].state].keys = heap[x.state].keys)

\* A finished copy of an instance that has a state with a field in it, made after a
\* deep copy left an entry in the one-entry cache.
C23_Witness ==
    \E t \in Threads : \E n \in Calls(t) :
        LET c == hist[t][n]
        IN /\ ShallowOk(c)
           /\ heap[c.x].kind = "obj"
           /\ heap[c.x].state # None
           /\ heap[heap[c.x].state].kids # <<>>
           /\ heap[heap[c.y].state].kids = heap[heap[c.x].state].kids
           /\ last_id # None

\* ------------------------------------------------- overrides that use the memo
\* The list [.., v, ..] over a list 2 and an instance v = 3 whose type declares a
\* memo-aware override or the override of class A, with fields that lead back to
\* the lists or to v itself.
HookInit ==
    /\ \E dh \in {MemoAware, CopiesList} :
       \E fields \in {<<2>>, <<Root>>, <<3>>, <<2, 3>>, <<2, 2>>} :
       \E l \in {<<1>>, <<3>>, <<Root>>} :
       \E kids \in {<<3>>, <<2, 3>>, <<3, 2>>, <<3, 3>>, <<2, 3, 2>>} :
          /\ dh = CopiesList => fields \in {<<2>>, <<Root>>}
          /\ heap = Graph(Obj("list", l, <<>>, <<>>, None),
                          [Obj("obj", <<>>, <<>>, fields, None) EXCEPT !.ty.dhook = dh],
                          Obj("list", kids, <<>>, <<>>, None))
    /\ \E x \in {3, Root} :
          todo = [t \in Threads |-> IF t = 1 THEN <<ToDo("deepcopy", x)>> ELSE <<>>]
    /\ InitEngine

HookStep(t) ==
    \/ Call(t) \/ ResetLastId(t) \/ ResetLastObj(t) \/ CheckLast(t) \/ FastReturn(t)
    \/ HitSetLastId(t) \/ HitReturn(t) \/ CopyAtomic(t)
    \/ Memoize(t) \/ SetLastId(t) \/ SetLastObjReturn(t)
    \/ CallList(t) \/ ListCall(t) \/ ListStore(t) \/ ListReturn(t)
    \/ CallHookMemo(t) \/ HookFieldCall(t) \/ HookFieldStore(t) \/ HookReturn(t)
    \/ CallHookA(t)

HookNext == \E t \in Threads : HookStep(t)

HookSpec == HookInit /\ [][HookNext]_vars

\* The values of the graph of x whose copy is made by an override.
Overridden(h, x) == {a \in Reach(h, x) : DeepStrategy(h[a].ty) = "hook"}

\* C24: the step that calls an override keeps every entry of the caller's memo
\* table in the table the override works on; while a memo-aware override runs, the
\* entry it added for its new instance is in that table; once deepcopy has the
\* override's result, that result is the value's entry and no other call of the
\* override is made for the value.  A finished deep copy through memo-aware
\* overrides gives every source object one counterpart and every counterpart one
\* source, also where a reference crosses the override.
C24_OverrideSharesMemo ==
    /\ [][\A t \in Threads :
            (/\ At(t, "dc", "dispatch")
             /\ DeepStrategy(heap[Top(t).x].ty) = "hook"
             /\ stack'[t] # stack[t]) =>
                \A a \in DOMAIN memo[t] :
                    a \in DOMAIN memo'[t] /\ memo'[t][a] = memo[t][a]]_vars
    /\ [](\A t \in Threads :
            /\ \A k \in DOMAIN stack[t] :
                  LET f == stack[t][k]
                  IN /\ f.fn = "hook" =>
                          f.x \in DOMAIN memo[t] /\ memo[t][f.x] = f.y
                     /\ (/\ f.fn = "dc"
                         /\ f.pc \in {"set_id", "set_obj"}
                         /\ DeepStrategy(heap[f.x].ty) = "hook"
                         /\ f.x \notin {stack[t][j].x : j \in 1 .. k - 1}) =>
                          f.x \in DOMAIN memo[t] /\ memo[t][f.x] = f.y
            /\ \A a \in SrcIds :
                  DeepStrategy(heap[a].ty) = "hook" => Invocations(t, a) <= 1
            /\ \A n \in Calls(t) :
                  LET c == hist[t][n]
                      R == Corr(heap, c.x, c.y)
                  IN (/\ DeepOk(c)
                      /\ \A a \in Overridden(heap, c.x) : heap[a].ty.dhook = MemoAware) =>
                         /\ Functional(R)
                         /\ OneToOne(R)
                         /\ \A p \in R : SameShape(heap, p[1], p[2])
                         /\ \A a \in Overridden(heap, c.x) :
                               \A p \in R : p[1] = a => p[2] \in c.made)

\* A finished deep copy of [l, v] where the memo-aware override of v copies its
\* fields l, copied before the override ran, and v itself: the new instance holds
\* the copy of l the list holds, and itself.
C24_Witness ==
    /\ hist[1] # <<>>
    /\ DeepOk(hist[1][1])
    /\ hist[1][1].x = Root
    /\ heap[Root].kids = <<2, 3>>
    /\ heap[3].ty.dhook = MemoAware
    /\ heap[3].args = <<2, 3>>
    /\ LET y == hist[1][1].y
           v == heap[y].kids[2]
       IN /\ v \in hist[1][1].made
          /\ heap[v].args = <<heap[y].kids[1], v>>

\* --------------------------------------------------- FastCachedJSONEncoder
\* The encoder of src/json/optimized_json.py, one instance per caller.  Its state is
\* kept in the variables of the caller's thread: memo[t] is self._cache, from the
\* identity of a container to the string cached for it, and made[t] is
\* self._encoding, the identities of the containers being encoded; invs[t] lists the
\* containers the current call of encode has entered.  A string is a sequence of
\* tokens.  A frame "enc" is a call of _encode_fast(x): ph is "try" once the call
\* has added x to self._encoding, acc holds the strings of the items encoded so far.

\* _should_cache: a dict of at least 3 keys or a list of at least 5 items
ShouldCache(h, a) ==
    \/ h[a].kind = "dict" /\ Len(h[a].kids) >= 3
    \/ h[a].kind = "list" /\ Len(h[a].kids) >= 5

\* separators[0].join(items)
RECURSIVE JoinItems(_)
JoinItems(items) ==
    IF items = <<>> THEN <<>>
    ELSE IF Len(items) = 1 THEN items[1]
    ELSE items[1] \o <<",">> \o JoinItems(Tail(items))

\* _encode_list_fast and _encode_dict_fast, compact: the brackets around the joined
\* items, '[]' or '{}' for an empty container
FormatItems(kind, items) ==
    IF kind = "dict" THEN <<"{">> \o JoinItems(items) \o <<"}">>
    ELSE <<"[">> \o JoinItems(items) \o <<"]">>

\* f'{key_json}{separators[1]}{value_json}' for a value of a dict, the string of the
\* item itself for an item of a list
FormatItem(kind, s) == IF kind = "dict" THEN <<"k", ":">> \o s ELSE s

\* An encoder that keeps the strings it cached in earlier calls.
ResetCacheKept(m) == m

\* reset: self._cache = {}
ResetCache(m) == EmptyFn

\* encode(obj): self.reset(); result = self._encode_fast(obj)
EncodeCall(t) ==
    /\ stack[t] = <<>>
    /\ todo[t] # <<>>
    /\ Head(todo[t]).op = "encode"
    /\ memo' = [memo EXCEPT ![t] = ResetCache(@)]
    /\ made' = [made EXCEPT ![t] = {}]
    /\ invs' = [invs EXCEPT ![t] = <<>>]
    /\ stack' = [stack EXCEPT ![t] = <<Frame("enc", Head(todo[t]).x, "start")>>]
    /\ todo' = [todo EXCEPT ![t] = Tail(@)]
    /\ UNCHANGED <<heap, last_id, last_obj, keep, hist, nalloc>>

\* _encode_fast returns s: to the routine that encodes the items of the enclosing
\* container, or to encode, which returns it to the caller.
EncReturn(t, s) ==
    IF Len(stack[t]) = 1
    THEN /\ stack' = [stack EXCEPT ![t] = <<>>]
         /\ hist' = [hist EXCEPT ![t] = Append(@, Done("encode", Top(t).x, s, "ok", {}))]
    ELSE /\ stack' = [stack EXCEPT ![t] =
                [Pop(@) EXCEPT ![Len(@) - 1] = [@ EXCEPT !.r = s, !.pc = "got"]]]
         /\ UNCHANGED hist

\* isinstance(obj, (int, float)): return json.dumps(obj)
EncPrimitive(t) ==
    /\ At(t, "enc", "start")
    /\ heap[Top(t).x].kind = "atom"
    /\ EncReturn(t, <<"1">>)
    /\ UNCHANGED <<heap, last_id, last_obj, memo, keep, made, invs, nalloc, todo>>

\* if obj_id in self._cache: return self._cache[obj_id]
EncCacheHit(t) ==
    /\ At(t, "enc", "start")
    /\ ShouldCache(heap, Top(t).x)
    /\ Top(t).x \in DOMAIN memo[t]
    /\ EncReturn(t, memo[t][Top(t).x])
    /\ UNCHANGED <<heap, last_id, last_obj, memo, keep, made, invs, nalloc, todo>>

\* if obj_id in self._encoding: return json.dumps(obj, **self.json_kwargs), which
\* raises ValueError: a container that is being encoded contains itself
EncCircular(t) ==
    /\ At(t, "enc", "start")
    /\ ShouldCache(heap, Top(t).x)
    /\ Top(t).x \notin DOMAIN memo[t]
    /\ Top(t).x \in made[t]
    /\ stack' = SetTop(t, [Top(t) EXCEPT !.pc = "raise"])
    /\ UNCHANGED <<heap, last_id, last_obj, memo, keep, hist, made, invs, nalloc, todo>>

\* self._encoding.add(obj_id); try: ...
EncEnter(t) ==
    /\ At(t, "enc", "start")
    /\ ShouldCache(heap, Top(t).x)
    /\ Top(t).x \notin DOMAIN memo[t]
    /\ Top(t).x \notin made[t]
    /\ made' = [made EXCEPT ![t] = @ \cup {Top(t).x}]
    /\ invs' = [invs EXCEPT ![t] = Append(@, Top(t).x)]
    /\ stack' = SetTop(t, [Top(t) EXCEPT !.ph = "try", !.pc = "items"])
    /\ UNCHANGED <<heap, last_id, last_obj, memo, keep, hist, nalloc, todo>>

\* else: small objects are encoded without caching
EncSmall(t) ==
    /\ At(t, "enc", "start")
    /\ heap[Top(t).x].kind \in {"list", "dict"}
    /\ ~ ShouldCache(heap, Top(t).x)
    /\ stack' = SetTop(t, [Top(t) EXCEPT !.pc = "items"])
    /\ UNCHANGED <<heap, last_id, last_obj, memo, keep, hist, made, invs, nalloc, todo>>

\* self._encode_fast(item) for the next item, self._encode_fast(obj[key]) for the
\* next key
EncItemCall(t) ==
    /\ At(t, "enc", "items")
    /\ Top(t).i <= Len(heap[Top(t).x].kids)
    /\ stack' = Push(t, Frame("enc", heap[Top(t).x].kids[Top(t).i], "start"))
    /\ UNCHANGED <<heap, last_id, last_obj, memo, keep, hist, made, invs, nalloc, todo>>

\* items.append(...)
EncItemStore(t) ==
    /\ At(t, "enc", "got")
    /\ stack' = SetTop(t, [Top(t) EXCEPT
            !.acc = Append(@, FormatItem(heap[Top(t).x].kind, Top(t).r)),
            !.i = @ + 1, !.pc = "items"])
    /\ UNCHANGED <<heap, last_id, last_obj, memo, keep, hist, made, invs, nalloc, todo>>

\* the string of the container is formatted; within the try it is cached,
\* self._cache[obj_id] = result, and finally: self._encoding.remove(obj_id)
EncFinish(t) ==
    /\ At(t, "enc", "items")
    /\ Top(t).i > Len(heap[Top(t).x].kids)
    /\ LET s == FormatItems(heap[Top(t).x].kind, Top(t).acc)
       IN /\ EncReturn(t, s)
          /\ IF Top(t).ph = "try"
             THEN /\ memo' = [memo EXCEPT ![t] = Upd(@, Top(t).x, s)]
                  /\ made' = [made EXCEPT ![t] = @ \ {Top(t).x}]
             ELSE UNCHANGED <<memo, made>>
    /\ UNCHANGED <<heap, last_id, last_obj, keep, invs, nalloc, todo>>

\* the exception leaves a call of _encode_fast for the call that made it;
\* finally: self._encoding.remove(obj_id)
EncUnwind(t) ==
    /\ At(t, "enc", "raise")
    /\ Len(stack[t]) > 1
    /\ stack' = [stack EXCEPT ![t] = [Pop(@) EXCEPT ![Len(@) - 1] = [@ EXCEPT !.pc = "raise"]]]
    /\ made' = [made EXCEPT ![t] = IF Top(t).ph = "try" THEN @ \ {Top(t).x} ELSE @]
    /\ UNCHANGED <<heap, last_id, last_obj, memo, keep, hist, invs, nalloc, todo>>

\* the exception leaves the outermost _encode_fast; except Exception: return
\* json.dumps(obj, **self.json_kwargs), which raises ValueError for the circular
\* reference that made _encode_fast raise
EncodeFallback(t) ==
    /\ At(t, "enc", "raise")
    /\ Len(stack[t]) = 1
    /\ stack' = [stack EXCEPT ![t] = <<>>]
    /\ made' = [made EXCEPT ![t] = IF Top(t).ph = "try" THEN @ \ {Top(t).x} ELSE @]
    /\ hist' = [hist EXCEPT ![t] = Append(@, Failed("encode", Top(t).x, "ValueError", Top(t).x, {}))]
    /\ UNCHANGED <<heap, last_id, last_obj, memo, keep, invs, nalloc, todo>>

\* Lists of five items and dicts of three keys, which the encoder caches, and
\* smaller ones, which it does not; the list 2 may contain itself or the root.  The
\* caller encodes the root or the container 3, MaxCalls times.
EncInit ==
    /\ \E l \in {<<1>>, <<1, 1, 1, 1, 1>>, <<1, 1, 1, 1, 2>>, <<Root, 1, 1, 1, 1>>} :
       \E d \in {<<2>>, <<2, 2, 1>>, <<1, 2, 2>>} :
       \E k \in {"list", "dict"} :
       \E r \in {<<2, 3>>, <<3, 2>>, <<3, 3, 2>>, <<3, 2, 3, 2, 1>>} :
          heap = Graph(Obj("list", l, <<>>, <<>>, None),
                       Obj(k, d, IF k = "dict" THEN [n \in DOMAIN d |-> 0] ELSE <<>>, <<>>, None),
                       Obj("list", r, <<>>, <<>>, None))
    /\ \E q \in [1 .. MaxCalls -> {ToDo("encode", x) : x \in {3, Root}}] :
          todo = [t \in Threads |-> IF t = 1 THEN q ELSE <<>>]
    /\ InitEngine

EncStep(t) ==
    \/ EncodeCall(t) \/ EncPrimitive(t) \/ EncCacheHit(t) \/ EncCircular(t)
    \/ EncEnter(t) \/ EncSmall(t) \/ EncItemCall(t) \/ EncItemStore(t) \/ EncFinish(t)
    \/ EncUnwind(t) \/ EncodeFallback(t)

EncNext == \E t \in Threads : EncStep(t)

EncSpec == EncInit /\ [][EncNext]_vars

\* The string of the value a, encoded without any cache; for a graph without cycles.
RECURSIVE Encoded(_, _)
Encoded(h, a) ==
    IF h[a].kind = "atom" THEN <<"1">>
    ELSE FormatItems(h[a].kind,
            [n \in DOMAIN h[a].kids |-> FormatItem(h[a].kind, Encoded(h, h[a].kids[n]))])

\* The containers whose call of _encode_fast stands inside its try block.
InTry(t) == {stack[t][k].x : k \in {j \in DOMAIN stack[t] : stack[t][j].ph = "try"}}

\* C25: the step that starts a call of encode leaves the cache and the in-progress
\* set empty; at every moment the in-progress set holds exactly the containers
\* whose encoding is under way, so it is empty when encode has returned or raised;
\* a string taken from the cache is the string of a container that this call of
\* encode has entered and cached, and a call that returns returns the string of
\* the value as it is.
C25_EncoderStateIsPerCall ==
    /\ [][\A t \in Threads :
            /\ (stack[t] = <<>> /\ stack'[t] # <<>>) =>
                  memo'[t] = EmptyFn /\ made'[t] = {}
            /\ (/\ At(t, "enc", "start")
                /\ ShouldCache(heap, Top(t).x)
                /\ Top(t).x \in DOMAIN memo[t]
                /\ stack'[t] # stack[t]) =>
                  Top(t).x \in Range(invs[t])]_vars
    /\ [](\A t \in Threads :
            /\ made[t] = InTry(t)
            /\ stack[t] = <<>> => made[t] = {}
            /\ \A n \in Calls(t) :
                  hist[t][n].status = "ok" =>
                     hist[t][n].y = Encoded(heap, hist[t][n].x))

\* The second call of encode on the same encoder has returned, after a first call
\* that cached the string of a container the second one meets twice: the second
\* call entered the container and cached it again.
C25_Witness ==
    /\ Len(hist[1]) = 2
    /\ hist[1][1].status = "ok"
    /\ hist[1][2].status = "ok"
    /\ hist[1][1].x = 3
    /\ hist[1][2].x = Root
    /\ ShouldCache(heap, 3)
    /\ heap[Root].kids = <<3, 3, 2>>
    /\ 3 \in Range(invs[1])
    /\ made[1] = {}

\* C26: no step of copy or of deepcopy changes an object of the source graph: its
\* children, keys, arguments and state stay the same objects in the same order, and
\* so do the entries the two dispatch tables and the type hold for it.  Every object
\* a step writes to is one that the call in flight has allocated.
C26_SourceUnchanged ==
    [][/\ \A a \in SrcIds : heap'[a] = heap[a]
       /\ \A a \in DOMAIN heap : heap'[a] # heap[a] => \E t \in Threads : a \in made[t]
       /\ DOMAIN heap \subseteq DOMAIN heap']_vars

\* A caller has finished a deep copy and a shallow copy of containers with children;
\* the deep copy holds new children, so the list routine or the reconstruction has
\* stored into it.
C26_Witness ==
    \E t \in Threads : \E n, k \in Calls(t) :
        /\ DeepOk(hist[t][n])
        /\ ShallowOk(hist[t][k])
        /\ hist[t][n].y \notin SrcIds
        /\ hist[t][k].y \notin SrcIds
        /\ Refs(heap, hist[t][n].y) # {}
        /\ Refs(heap, hist[t][n].y) \cap SrcIds = {}
        /\ Refs(heap, hist[t][k].y) # {}

\* ------------------------------------------------- a memo supplied by the caller
\* The caller of thread t makes its next top-level call, deepcopy(x, {}): memo is
\* not None, so the call neither resets the one-entry cache nor makes a memo.
CallWithMemo(t) ==
    /\ stack[t] = <<>>
    /\ todo[t] # <<>>
    /\ Head(todo[t]).op = "deepcopy_memo"
    /\ stack' = [stack EXCEPT ![t] = <<Frame("dc", Head(todo[t]).x, "check")>>]
    /\ memo' = [memo EXCEPT ![t] = EmptyFn]
    /\ keep' = [keep EXCEPT ![t] = <<>>]
    /\ todo' = [todo EXCEPT ![t] = Tail(@)]
    /\ made' = [made EXCEPT ![t] = {}]
    /\ invs' = [invs EXCEPT ![t] = <<>>]
    /\ UNCHANGED <<heap, last_id, last_obj, hist, nalloc>>

\* One caller deep-copies a value of a graph of lists, tuples, dicts and frozensets
\* with the memo omitted, and then a value of the graph with an empty memo of its own.
MemoInit ==
    /\ IsSrcGraph(BuiltinShapes, MaxRefs, heap)
    /\ \E x, z \in {3, Root} :
          todo = [t \in Threads |-> IF t = 1 THEN <<ToDo("deepcopy", x), ToDo("deepcopy_memo", z)>>
                                    ELSE <<>>]
    /\ InitEngine

MemoNext == \E t \in Threads : DeepCopyStep(t) \/ CallWithMemo(t)

MemoSpec == MemoInit /\ [][MemoNext]_vars

\* C27: a top-level call deepcopy(x, {}) that follows a call deepcopy(z) returns no
\* object the earlier call has built; as deepcopy(x) would, it returns an object
\* built during the call itself, or x where x is its own copy.
C27_ExplicitMemoIsFresh ==
    \A t \in Threads :
        (Len(hist[t]) = 2 /\ DeepOk(hist[t][1]) /\ DeepOk(hist[t][2])) =>
            /\ hist[t][2].y \notin hist[t][1].made
            /\ hist[t][2].y \in hist[t][2].made \cup {hist[t][2].x}

====
